---------------------------- MODULE Spec2Model ----------------------------
(***************************************************************************)
(* Memory-Palace: the structured-output recovery layer and the quizzes.    *)
(*                                                                         *)
(* Strings are sequences of one-character strings, so that the character   *)
(* level operations of the source (strip, startswith, the regular          *)
(* expressions, json.loads) are computed and not assumed.                  *)
(*                                                                         *)
(* There is one specification per entry point of the source:               *)
(*   SpecLocator  mcq._safe_load_json                                      *)
(*   SpecClean    mcq.run_mcq_quiz._clean_md                               *)
(*   SpecMcq      mcq.build_mcqs_with_gemini                               *)
(*   SpecFallback flashcards.create_fallback_flashcards                    *)
(*   SpecFlash    flashcards.extract_concepts_from_notes                   *)
(*   SpecIntent   main.StudyAssistant.parse_study_intent                   *)
(*   SpecGenerateMcqs        mcq.generate_mcqs                             *)
(*   SpecGenerateFlashcards  main.StudyAssistant.handle_flashcard_generation, *)
(*                with flashcards.generate_flashcards_from_file and        *)
(*                flashcards.extract_concepts_from_long_content            *)
(*   SpecDeduplicate  the two deduplication loops of flashcards.py         *)
(*   SpecQuiz     quiz.start_quiz and mcq.run_mcq_quiz, which share        *)
(*                data/progress.json                                       *)
(***************************************************************************)
EXTENDS Integers, Sequences, FiniteSets, TLC

VARIABLES
    pc,                \* where the running function stands
    i,                 \* the index of the running loop
    result,            \* what the function returned or raised
    text, stack, start,                             \* _safe_load_json, _clean_md
    content, response, flashcards, valid_flashcards,
    unique_flashcards,                              \* flashcards.py
    data, filtered,                                 \* build_mcqs_with_gemini
    proc,                                           \* the last run of the Gemini CLI
    frame,                                          \* the callers of the running function
    chunks, ci, all_flashcards,                     \* extract_concepts_from_long_content
    notes_text, concepts, mcqs, use_gemini,
    num_questions,                                  \* generate_mcqs
    flashcards_json, mcqs_json,                     \* the files under data/
    discovered_files,                               \* StudyAssistant.discovered_files
    user_input,                                     \* what the user typed
    file, files_processed, all_success,             \* handle_flashcard_generation
    progress_json,                                  \* data/progress.json
    quiz,                                           \* the QuizSession of start_quiz
    selected_cards, user_answer, evaluation,        \* run_quiz, ask_question
    items, correct, total, responses                \* run_mcq_quiz

scanVars == <<text, stack, start>>
flashVars == <<content, response, flashcards, valid_flashcards, unique_flashcards>>
mcqVars == <<data, filtered>>
hostVars == <<frame, chunks, ci, all_flashcards, notes_text, concepts, mcqs, use_gemini,
              num_questions, flashcards_json, mcqs_json, discovered_files, user_input,
              file, files_processed, all_success>>
genVars == <<proc, hostVars>>
quizVars == <<progress_json, quiz, selected_cards, user_answer, evaluation,
              items, correct, total, responses>>
vars == <<pc, i, result, scanVars, flashVars, mcqVars, genVars, quizVars>>

(***************************************************************************)
(* Bounds of the model.                                                    *)
(***************************************************************************)
LocMaxLen == 4
MdMaxLen == 4
McqMaxOpts == 5
McqMaxItems == 2
FbMaxSegs == 3
FlMaxCards == 2
IntentMaxWords == 2
GmMaxLines == 2
GfMaxFiles == 2

(***************************************************************************)
(* Characters and the str methods the source uses.                         *)
(***************************************************************************)
\* str.strip() with no argument and the regex class \s: ASCII whitespace.
Whitespace == {" ", "\t", "\n", "\r"}

Digits == {"0", "1", "2", "3", "4", "5", "6", "7", "8", "9"}

\* The least member of a non-empty set of integers
Least(S) == CHOOSE x \in S : \A y \in S : x <= y

\* s[a..b] as Python's s[a-1:b]; empty when b < a.
Slice(s, a, b) == IF b < a THEN <<>> ELSE SubSeq(s, a, b)

\* The first index >= p of s that is not in the set cs (Len(s)+1 if none).
SkipWhile(s, p, cs) ==
    IF p > Len(s) THEN p
    ELSE CHOOSE j \in p..(Len(s) + 1) :
            /\ j > Len(s) \/ s[j] \notin cs
            /\ \A m \in p..(j - 1) : s[m] \in cs

\* The first index >= p of s that is in the set stops (Len(s)+1 if none)
SkipUntil(s, p, stops) ==
    IF p > Len(s) THEN p
    ELSE CHOOSE j \in p..(Len(s) + 1) :
            /\ j > Len(s) \/ s[j] \in stops
            /\ \A m \in p..(j - 1) : s[m] \notin stops

\* The last index <= p of s that is not in the set cs (0 if none).
SkipBack(s, p, cs) ==
    IF p < 1 THEN p
    ELSE CHOOSE j \in 0..p :
            /\ j = 0 \/ s[j] \notin cs
            /\ \A m \in (j + 1)..p : s[m] \in cs

\* str.strip(chars): both ends trimmed of the characters of cs.
StripChars(s, cs) == Slice(s, SkipWhile(s, 1, cs), SkipBack(s, Len(s), cs))

\* str.strip()
Strip(s) == StripChars(s, Whitespace)

\* The string d stands at index p of s
DelimAt(s, p, d) == p + Len(d) - 1 <= Len(s) /\ Slice(s, p, p + Len(d) - 1) = d

\* s.startswith(prefix)
StartsWith(s, prefix) == DelimAt(s, 1, prefix)

(***************************************************************************)
(* json.loads, for JSON without string escapes, fractions and exponents.   *)
(* A value is a record [t, v]: v is always a sequence.                     *)
(***************************************************************************)
JNull == [t |-> "null", v |-> <<>>]
JBool(b) == [t |-> "bool", v |-> <<b>>]
JNum(n) == [t |-> "num", v |-> <<n>>]
JStr(cs) == [t |-> "str", v |-> cs]
JArr(vs) == [t |-> "arr", v |-> vs]
\* An object is the sequence of its [k, val] members in insertion order.
JObj(ms) == [t |-> "obj", v |-> ms]

\* dict[k] = val: a repeated key keeps its place and takes the last value.
RECURSIVE ObjSet(_, _, _)
ObjSet(ms, k, val) ==
    IF ms = <<>> THEN <<[k |-> k, val |-> val]>>
    ELSE IF Head(ms).k = k THEN <<[k |-> k, val |-> val]>> \o Tail(ms)
    ELSE <<Head(ms)>> \o ObjSet(Tail(ms), k, val)

PFail == [ok |-> FALSE, val |-> JNull, next |-> 0]
POk(v, n) == [ok |-> TRUE, val |-> v, next |-> n]

\* -?(0|[1-9][0-9]*) at p
ParseNumber(s, p) ==
    LET neg == s[p] = "-"
        d == IF neg THEN p + 1 ELSE p
        e == SkipWhile(s, d, Digits)
        DigitVal(c) ==
            CHOOSE n \in 0..9 : <<"0", "1", "2", "3", "4", "5", "6", "7", "8", "9">>[n + 1] = c
        RECURSIVE DigitsVal(_, _)
        DigitsVal(a, acc) ==
            IF a >= e THEN acc ELSE DigitsVal(a + 1, acc * 10 + DigitVal(s[a]))
    IN IF d > Len(s) \/ s[d] \notin Digits THEN PFail
       ELSE IF s[d] = "0" THEN POk(JNum(0), d + 1)
       ELSE POk(JNum(IF neg THEN 0 - DigitsVal(d, 0) ELSE DigitsVal(d, 0)), e)

\* "..." at p (s[p] is the opening quote): a string may not hold the quote,
\* the backslash (no escapes here) or a control character
ParseString(s, p) ==
    LET e == SkipUntil(s, p + 1, {"\"", "\\", "\n", "\t", "\r"})
    IN IF e <= Len(s) /\ s[e] = "\"" THEN POk(JStr(Slice(s, p + 1, e - 1)), e + 1)
       ELSE PFail

RECURSIVE ParseValue(_, _)
RECURSIVE ParseElems(_, _, _)
RECURSIVE ParseMembers(_, _, _)

\* The elements of an array after '[' or ',': p is at the next value.
ParseElems(s, p, acc) ==
    LET r == ParseValue(s, p)
        q == SkipWhile(s, r.next, Whitespace)
    IN IF ~r.ok \/ q > Len(s) THEN PFail
       ELSE IF s[q] = "]" THEN POk(JArr(Append(acc, r.val)), q + 1)
       ELSE IF s[q] = "," THEN ParseElems(s, SkipWhile(s, q + 1, Whitespace), Append(acc, r.val))
       ELSE PFail

\* The members of an object after '{' or ',': p is at the next key.
ParseMembers(s, p, acc) ==
    IF p > Len(s) \/ s[p] # "\"" THEN PFail
    ELSE LET k == ParseString(s, p)
             c == SkipWhile(s, k.next, Whitespace)
         IN IF ~k.ok \/ c > Len(s) \/ s[c] # ":" THEN PFail
            ELSE LET r == ParseValue(s, SkipWhile(s, c + 1, Whitespace))
                     q == SkipWhile(s, r.next, Whitespace)
                     ms == ObjSet(acc, k.val.v, r.val)
                 IN IF ~r.ok \/ q > Len(s) THEN PFail
                    ELSE IF s[q] = "}" THEN POk(JObj(ms), q + 1)
                    ELSE IF s[q] = "," THEN ParseMembers(s, SkipWhile(s, q + 1, Whitespace), ms)
                    ELSE PFail

\* One JSON value at p
ParseValue(s, p) ==
    IF p > Len(s) THEN PFail
    ELSE IF s[p] = "\"" THEN ParseString(s, p)
    ELSE IF s[p] = "[" THEN
        LET q == SkipWhile(s, p + 1, Whitespace)
        IN IF q <= Len(s) /\ s[q] = "]" THEN POk(JArr(<<>>), q + 1)
           ELSE ParseElems(s, q, <<>>)
    ELSE IF s[p] = "{" THEN
        LET q == SkipWhile(s, p + 1, Whitespace)
        IN IF q <= Len(s) /\ s[q] = "}" THEN POk(JObj(<<>>), q + 1)
           ELSE ParseMembers(s, q, <<>>)
    ELSE IF s[p] = "-" \/ s[p] \in Digits THEN ParseNumber(s, p)
    ELSE IF DelimAt(s, p, <<"n", "u", "l", "l">>) THEN POk(JNull, p + 4)
    ELSE IF DelimAt(s, p, <<"t", "r", "u", "e">>) THEN POk(JBool(TRUE), p + 4)
    ELSE IF DelimAt(s, p, <<"f", "a", "l", "s", "e">>) THEN POk(JBool(FALSE), p + 5)
    ELSE PFail

\* json.loads(s): one value, whitespace around it, nothing else.
\* [ok |-> FALSE] is json.JSONDecodeError.
JsonLoads(s) ==
    LET r == ParseValue(s, SkipWhile(s, 1, Whitespace))
    IN IF r.ok /\ SkipWhile(s, r.next, Whitespace) > Len(s) THEN r ELSE PFail

(***************************************************************************)
(* mcq._safe_load_json                                                     *)
(***************************************************************************)
Texts(chars, n) == UNION {[1..k -> chars] : k \in 0..n}

\* What a call gave: a returned value, or the exception it raised.
Returned(v) == [kind |-> "value", val |-> v]
Raised(e) == [kind |-> e, val |-> JNull]
NoResult == [kind |-> "none", val |-> JNull]

\* (open_ch == "[" and ch == "]") or (open_ch == "{" and ch == "}")
Matches(open_ch, ch) ==
    (open_ch = "[" /\ ch = "]") \/ (open_ch = "{" /\ ch = "}")

\* A slip: the scan's end returns None instead of raising.
NotFoundReturnsNone == Returned(JNull)

\* raise ValueError("Could not parse JSON from response")
NotFound == Raised("ValueError")

\* The variables of the functions a specification does not run
ScanIdle == text = <<>> /\ stack = <<>> /\ start = 0
FlashIdle ==
    /\ content = <<>>
    /\ response = <<>>
    /\ flashcards = <<>>
    /\ valid_flashcards = <<>>
    /\ unique_flashcards = <<>>
McqIdle == data = <<>> /\ filtered = <<>>

\* No run of the Gemini CLI yet, and a file that does not exist
NoRun == [kind |-> "none", returncode |-> 0, stdout |-> <<>>]
Absent == [t |-> "absent", v |-> <<>>]

\* No quiz was started and nothing is stored in data/progress.json
QuizIdle ==
    /\ progress_json = Absent
    /\ quiz = [flashcards |-> Absent, progress |-> Absent,
               current_session |-> [correct |-> 0, total |-> 0, wrong_answers |-> <<>>,
                                    streak |-> 0, best_streak |-> 0]]
    /\ selected_cards = <<>>
    /\ user_answer = <<>>
    /\ evaluation = [is_correct |-> FALSE, feedback |-> <<>>, score |-> 0,
                     match_quality |-> <<>>]
    /\ items = <<>>
    /\ correct = 0
    /\ total = 0
    /\ responses = <<>>

\* The variables of the callers, when no caller runs
GenIdle ==
    /\ proc = NoRun
    /\ frame = <<>>
    /\ chunks = <<>>
    /\ ci = 0
    /\ all_flashcards = <<>>
    /\ notes_text = <<>>
    /\ concepts = <<>>
    /\ mcqs = <<>>
    /\ use_gemini = TRUE
    /\ num_questions = 10
    /\ flashcards_json = Absent
    /\ mcqs_json = Absent
    /\ discovered_files = <<>>
    /\ file = 0
    /\ files_processed = <<>>
    /\ all_success = TRUE
    /\ QuizIdle

LocInit ==
    /\ pc = "load"
    /\ LET chars == {"[", "]", "{", "}", "\"", "1", "a", " "}
           \* a span that is no JSON, and an object whose string holds a closer
           rejected == {<<"[", "a", "]">>, <<"{", "1", "}">>}
           object == <<"{", "\"", "a", "\"", ":", "\"", "]", "\"", "}">>
       IN text \in Texts(chars, LocMaxLen)
                     \cup {r \o t : r \in rejected, t \in Texts(chars, LocMaxLen - 1)}
                     \cup {object, <<"a", " ">> \o object}
    /\ i = 0
    /\ stack = <<>>
    /\ start = 0
    /\ result = NoResult
    /\ FlashIdle
    /\ McqIdle
    /\ GenIdle
    /\ user_input = <<>>

\* text = text.strip(); try: return json.loads(text); except: pass
TryDirect ==
    /\ pc = "load"
    /\ text' = Strip(text)
    /\ LET r == JsonLoads(text')
       IN IF r.ok
          THEN /\ result' = Returned(r.val)
               /\ pc' = "done"
               /\ UNCHANGED <<i, stack, start>>
          ELSE /\ pc' = "scan"
               /\ i' = 1
               /\ stack' = <<>>
               /\ start' = 0
               /\ UNCHANGED result
    /\ UNCHANGED <<flashVars, mcqVars>>
    /\ UNCHANGED genVars
    /\ UNCHANGED quizVars

\* if ch in "[{": if not stack: start = i; stack.append(ch)
ScanOpener ==
    /\ pc = "scan"
    /\ i <= Len(text)
    /\ text[i] \in {"[", "{"}
    /\ start' = IF stack = <<>> THEN i ELSE start
    /\ stack' = Append(stack, text[i])
    /\ i' = i + 1
    /\ UNCHANGED <<pc, text, result>>
    /\ UNCHANGED <<flashVars, mcqVars>>
    /\ UNCHANGED genVars
    /\ UNCHANGED quizVars

\* A slip: a candidate that does not parse ends the scan with the error.
ScanCloserAborts ==
    /\ pc = "scan"
    /\ i <= Len(text)
    /\ text[i] \notin {"[", "{"}
    /\ text[i] \in {"]", "}"}
    /\ IF stack = <<>>
       THEN /\ i' = i + 1
            /\ UNCHANGED <<pc, stack, result>>
       ELSE LET open_ch == stack[Len(stack)]
                popped == SubSeq(stack, 1, Len(stack) - 1)
                r == JsonLoads(Slice(text, start, i))
            IN /\ stack' = popped
               /\ IF Matches(open_ch, text[i]) /\ popped = <<>>
                  THEN /\ result' = IF r.ok THEN Returned(r.val) ELSE NotFound
                       /\ pc' = "done"
                       /\ UNCHANGED i
                  ELSE /\ i' = i + 1
                       /\ UNCHANGED <<pc, result>>
    /\ UNCHANGED <<text, start>>
    /\ UNCHANGED <<flashVars, mcqVars>>
    /\ UNCHANGED genVars
    /\ UNCHANGED quizVars

\* elif ch in "]}": the pop, the match test and the parse of the candidate
ScanCloser ==
    /\ pc = "scan"
    /\ i <= Len(text)
    /\ text[i] \notin {"[", "{"}
    /\ text[i] \in {"]", "}"}
    /\ IF stack = <<>>
       THEN /\ i' = i + 1
            /\ UNCHANGED <<pc, stack, result>>
       ELSE LET open_ch == stack[Len(stack)]
                popped == SubSeq(stack, 1, Len(stack) - 1)
                r == JsonLoads(Slice(text, start, i))
            IN /\ stack' = popped
               /\ IF Matches(open_ch, text[i]) /\ popped = <<>> /\ r.ok
                  THEN /\ result' = Returned(r.val)
                       /\ pc' = "done"
                       /\ UNCHANGED i
                  ELSE /\ i' = i + 1
                       /\ UNCHANGED <<pc, result>>
    /\ UNCHANGED <<text, start>>
    /\ UNCHANGED <<flashVars, mcqVars>>
    /\ UNCHANGED genVars
    /\ UNCHANGED quizVars

\* any other character
ScanOther ==
    /\ pc = "scan"
    /\ i <= Len(text)
    /\ text[i] \notin {"[", "{"}
    /\ text[i] \notin {"]", "}"}
    /\ i' = i + 1
    /\ UNCHANGED <<pc, text, stack, start, result>>
    /\ UNCHANGED <<flashVars, mcqVars>>
    /\ UNCHANGED genVars
    /\ UNCHANGED quizVars

\* the loop ends: raise ValueError
ScanEnd ==
    /\ pc = "scan"
    /\ i > Len(text)
    /\ result' = NotFound
    /\ pc' = "done"
    /\ UNCHANGED <<text, i, stack, start>>
    /\ UNCHANGED <<flashVars, mcqVars>>
    /\ UNCHANGED genVars
    /\ UNCHANGED quizVars

LocNext == TryDirect \/ ScanOpener \/ ScanCloser \/ ScanOther \/ ScanEnd

SpecLocator == LocInit /\ [][LocNext]_vars

(***************************************************************************)
(* Claims about _safe_load_json                                            *)
(***************************************************************************)
Brackets == {"[", "]", "{", "}"}

\* s[a..b] is a well-formed JSON array
ArrayAt(s, a, b) ==
    a <= b /\ s[a] = "[" /\ s[b] = "]" /\ JsonLoads(Slice(s, a, b)).ok

\* s[a..b] is a well-formed JSON array or object
ContainerAt(s, a, b) ==
    a <= b /\ s[a] \in {"[", "{"} /\ JsonLoads(Slice(s, a, b)).ok

\* s[a..b] is the one array of s: every well-formed array or object of s
\* lies in it, so the prose around it holds no JSON of its own
OnlyArrayAt(s, a, b) ==
    /\ ArrayAt(s, a, b)
    /\ \A a2 \in 1..Len(s), b2 \in 1..Len(s) :
          ContainerAt(s, a2, b2) => a <= a2 /\ b2 <= b

HasNoBracket(s) == \A k \in 1..Len(s) : s[k] \notin Brackets

\* No span of s[1..n] parses as JSON
NothingParsesBefore(s, n) ==
    \A a \in 1..n, b \in 1..n : a <= b => ~JsonLoads(Slice(s, a, b)).ok

\* C1 (as claimed): a text that holds one well-formed JSON array embedded in
\* prose, prose with bracket characters included, gives exactly that array
\* (the text as a whole not being a JSON document of its own).
C1_EmbeddedArrayReturned ==
    pc = "done" /\ ~JsonLoads(text).ok =>
        \A a \in 1..Len(text), b \in 1..Len(text) :
            OnlyArrayAt(text, a, b) =>
                result = Returned(JsonLoads(Slice(text, a, b)).val)

\* C2 (as claimed): a text without any bracket character always fails with
\* the not-found error and never returns a value.
C2_NoBracketAlwaysFails ==
    pc = "done" /\ HasNoBracket(text) => result.kind = "ValueError"

\* C2 (amended): a text without any bracket character returns its value when
\* the stripped text is itself a JSON document (a scalar), and fails with
\* ValueError otherwise.
C2_NoBracketScalarOrError ==
    pc = "done" /\ HasNoBracket(text) =>
        IF JsonLoads(text).ok
        THEN result = Returned(JsonLoads(text).val)
        ELSE result = Raised("ValueError")

\* C2 witness: a scanned text of prose, a digit and a quote, no bracket,
\* ended with the error.
C2_Witness ==
    /\ pc = "done"
    /\ HasNoBracket(text)
    /\ Len(text) >= 3
    /\ i > Len(text)
    /\ \E k \in 1..Len(text) : text[k] = "1"
    /\ result = Raised("ValueError")

\* C3 (as claimed): a prefix of noise brackets in which nothing parses,
\* followed by one valid JSON array, gives that array.
C3_NoisePrefixThenArray ==
    pc = "done" =>
        \A a \in 2..Len(text) :
            /\ \A k \in 1..(a - 1) : text[k] \in Brackets
            /\ NothingParsesBefore(text, a - 1)
            /\ ArrayAt(text, a, Len(text))
            => result = Returned(JsonLoads(Slice(text, a, Len(text))).val)

\* C21 (as claimed): in the bracket scan a closer that does not match the
\* opener on top of the stack is ignored: the step leaves the stack and the
\* recorded start of the candidate as they were.
C21_MismatchedCloserIgnored ==
    [][/\ pc = "scan"
       /\ i <= Len(text)
       /\ text[i] \in {"]", "}"}
       /\ stack # <<>>
       /\ ~Matches(stack[Len(stack)], text[i])
       => stack' = stack /\ start' = start]_vars

\* The openers left open by s[p..b] when `open` were open before it, every
\* closer closing the opener of its own type; <<"!">> when a closer does not.
RECURSIVE Nesting(_, _, _, _)
Nesting(s, p, b, open) ==
    IF p > b THEN open
    ELSE IF s[p] \in {"[", "{"} THEN Nesting(s, p + 1, b, Append(open, s[p]))
    ELSE IF s[p] \in {"]", "}"}
         THEN IF open # <<>> /\ Matches(open[Len(open)], s[p])
              THEN Nesting(s, p + 1, b, SubSeq(open, 1, Len(open) - 1))
              ELSE <<"!">>
    ELSE Nesting(s, p + 1, b, open)

\* s[a..b] is a balanced top-level span: it starts with an opener outside
\* every other span and ends with the closer of that opener
TopLevelSpan(s, a, b) ==
    /\ a < b
    /\ s[a] \in {"[", "{"}
    /\ Nesting(s, 1, a - 1, <<>>) = <<>>
    /\ Nesting(s, a, b, <<>>) = <<>>
    /\ \A m \in a..(b - 1) : Nesting(s, a, m, <<>>) # <<>>

\* s[a..b] is the first balanced top-level span of s that parses
FirstParsingSpan(s, a, b) ==
    /\ TopLevelSpan(s, a, b)
    /\ JsonLoads(Slice(s, a, b)).ok
    /\ \A a2 \in 1..(a - 1), b2 \in 1..(a - 1) :
          TopLevelSpan(s, a2, b2) => ~JsonLoads(Slice(s, a2, b2)).ok

\* C22: a balanced top-level span that does not parse does not end the scan:
\* the first balanced top-level span that parses is returned, whatever spans
\* failed before it, and the error is raised only at the end of the text.
C22_ScanGoesOnAfterFailedSpan ==
    pc = "done" /\ ~JsonLoads(text).ok =>
        /\ result.kind = "ValueError" => i > Len(text)
        /\ \A a \in 1..Len(text), b \in 1..Len(text) :
              FirstParsingSpan(text, a, b) =>
                  result = Returned(JsonLoads(Slice(text, a, b)).val)

\* C22 witness: the scan returned a span that starts after a balanced
\* top-level span that did not parse.
C22_Witness ==
    /\ pc = "done"
    /\ result.kind = "value"
    /\ ~JsonLoads(text).ok
    /\ \E a \in 1..Len(text), b \in 1..Len(text) :
          /\ FirstParsingSpan(text, a, b)
          /\ start = a /\ i = b
          /\ \E a2 \in 1..(a - 1), b2 \in 1..(a - 1) : TopLevelSpan(text, a2, b2)

(***************************************************************************)
(* mcq.run_mcq_quiz._clean_md                                              *)
(***************************************************************************)
\* The backtick character (a string literal of the module cannot hold it)
Backtick == "BACKTICK"

\* _clean_md(text) for a str
CleanMd(text0) ==
    LET \* The lazy group of d(.+?)d in s: the least e > g with d at e, the
        \* group s[g..e-1] holding no newline ('.' matches none); 0 if none
        RECURSIVE LazyClose(_, _, _)
        LazyClose(s, e, d) ==
            IF e > Len(s) \/ s[e - 1] = "\n" THEN 0
            ELSE IF DelimAt(s, e, d) THEN e
            ELSE LazyClose(s, e + 1, d)
        \* re.sub(d(.+?)d, r"\1", s) from p on
        RECURSIVE SubPaired(_, _, _)
        SubPaired(s, p, d) ==
            IF p > Len(s) THEN <<>>
            ELSE LET g == p + Len(d)
                     e == IF DelimAt(s, p, d) /\ g <= Len(s) THEN LazyClose(s, g + 1, d) ELSE 0
                 IN IF e > 0
                    THEN Slice(s, g, e - 1) \o SubPaired(s, e + Len(d), d)
                    ELSE <<s[p]>> \o SubPaired(s, p + 1, d)
        \* s.replace(d, "") from p on
        RECURSIVE RemoveAll(_, _, _)
        RemoveAll(s, p, d) ==
            IF p > Len(s) THEN <<>>
            ELSE IF DelimAt(s, p, d) THEN RemoveAll(s, p + Len(d), d)
            ELSE <<s[p]>> \o RemoveAll(s, p + 1, d)
        \* re.sub(r"\s+([?.!,;:])", r"\1", s) from p on
        RECURSIVE TidyPunct(_, _)
        TidyPunct(s, p) ==
            IF p > Len(s) THEN <<>>
            ELSE LET w == SkipWhile(s, p, Whitespace)
                 IN IF w > p /\ w <= Len(s) /\ s[w] \in {"?", ".", "!", ",", ";", ":"}
                    THEN <<s[w]>> \o TidyPunct(s, w + 1)
                    ELSE <<s[p]>> \o TidyPunct(s, p + 1)
        t1 == Strip(text0)
        t2 == SubPaired(t1, 1, <<"*", "*">>)
        t3 == SubPaired(t2, 1, <<"_", "_">>)
        t4 == SubPaired(t3, 1, <<Backtick>>)
        t5 == RemoveAll(RemoveAll(RemoveAll(t4, 1, <<"*", "*">>), 1, <<"_", "_">>), 1, <<Backtick>>)
        t6 == StripChars(t5, {" ", "*", "_", Backtick, ":"})
    IN TidyPunct(t6, 1)

MdInit ==
    /\ pc = "clean"
    /\ text \in Texts({"*", "_", Backtick, ":", " ", "\n", "?", "a"}, MdMaxLen)
    /\ i = 0
    /\ stack = <<>>
    /\ start = 0
    /\ result = NoResult
    /\ FlashIdle
    /\ McqIdle
    /\ GenIdle
    /\ user_input = <<>>

\* question_text = _clean_md(q.get("question", ""))
CleanOnce ==
    /\ pc = "clean"
    /\ result' = Returned(JStr(CleanMd(text)))
    /\ pc' = "cleaned"
    /\ UNCHANGED <<text, i, stack, start>>
    /\ UNCHANGED <<flashVars, mcqVars>>
    /\ UNCHANGED genVars
    /\ UNCHANGED quizVars

\* _clean_md applied to its own output
CleanAgain ==
    /\ pc = "cleaned"
    /\ text' = result.val.v
    /\ result' = Returned(JStr(CleanMd(result.val.v)))
    /\ pc' = "recleaned"
    /\ UNCHANGED <<i, stack, start>>
    /\ UNCHANGED <<flashVars, mcqVars>>
    /\ UNCHANGED genVars
    /\ UNCHANGED quizVars

MdNext == CleanOnce \/ CleanAgain

SpecClean == MdInit /\ [][MdNext]_vars

\* C4 (as claimed): _clean_md is idempotent: cleaning its own output
\* changes nothing.
C4_CleanMdIdempotent ==
    pc = "recleaned" => result.val.v = text

(***************************************************************************)
(* Values parsed from JSON, as Python reads them                           *)
(***************************************************************************)
\* key in d
Has(d, key) == \E n \in 1..Len(d.v) : d.v[n].k = key

\* d[key]
Item(d, key) == d.v[CHOOSE n \in 1..Len(d.v) : d.v[n].k = key].val

\* d.get(key, default); d.get(key) is GetOr(d, key, JNull): None
GetOr(d, key, default) == IF Has(d, key) THEN Item(d, key) ELSE default

\* bool(v)
Truthy(v) ==
    CASE v.t = "null" -> FALSE
      [] v.t = "bool" -> v.v[1]
      [] v.t = "num" -> v.v[1] # 0
      [] OTHER -> v.v # <<>>

\* isinstance(v, int): bool is a subclass of int
IsInt(v) == v.t \in {"num", "bool"}

\* int(v) for such a v
IntOf(v) == IF v.t = "bool" THEN (IF v.v[1] THEN 1 ELSE 0) ELSE v.v[1]

(***************************************************************************)
(* The function form of _safe_load_json, for its callers                   *)
(***************************************************************************)
SafeLoadJson(s) ==
    LET t == Strip(s)
        RECURSIVE ScanFrom(_, _, _)
        ScanFrom(k, stk, st) ==
            IF k > Len(t) THEN NotFound
            ELSE IF t[k] \in {"[", "{"}
            THEN ScanFrom(k + 1, Append(stk, t[k]), IF stk = <<>> THEN k ELSE st)
            ELSE IF t[k] \in {"]", "}"} /\ stk # <<>>
            THEN LET popped == SubSeq(stk, 1, Len(stk) - 1)
                     r == JsonLoads(Slice(t, st, k))
                 IN IF Matches(stk[Len(stk)], t[k]) /\ popped = <<>> /\ r.ok
                    THEN Returned(r.val)
                    ELSE ScanFrom(k + 1, popped, st)
            ELSE ScanFrom(k + 1, stk, st)
    IN IF JsonLoads(t).ok THEN Returned(JsonLoads(t).val) ELSE ScanFrom(1, <<>>, 0)

(***************************************************************************)
(* mcq.build_mcqs_with_gemini, from the value gemini_json returned         *)
(***************************************************************************)
K_question == <<"q", "u", "e", "s", "t", "i", "o", "n">>
K_options == <<"o", "p", "t", "i", "o", "n", "s">>
K_answer_index == <<"a", "n", "s", "w", "e", "r", "_", "i", "n", "d", "e", "x">>
K_explanation == <<"e", "x", "p", "l", "a", "n", "a", "t", "i", "o", "n">>
K_output == <<"o", "u", "t", "p", "u", "t">>
K_candidates == <<"c", "a", "n", "d", "i", "d", "a", "t", "e", "s">>
K_content == <<"c", "o", "n", "t", "e", "n", "t">>
K_parts == <<"p", "a", "r", "t", "s">>
K_text == <<"t", "e", "x", "t">>

Member(key, val) == [k |-> key, val |-> val]

\* n distinct options
Options(n) == JArr([k \in 1..n |-> JStr(<<<<"a", "b", "c", "d", "e", "f", "g", "h">>[k]>>)])

\* A well-shaped MCQ with n options and answer_index idx
McqItem(n, idx) ==
    JObj(<<Member(K_question, JStr(<<"Q">>)), Member(K_options, Options(n)),
           Member(K_answer_index, JNum(idx)), Member(K_explanation, JStr(<<"e">>))>>)

\* The elements of the arrays: the well-shaped items, answer_index running
\* from one below to one above the options' indices; items with one field
\* missing or of another type; an element that is no object
McqItems ==
    LET Q == Member(K_question, JStr(<<"Q">>))
        Index(n) == Member(K_answer_index, JNum(n))
    IN UNION {{McqItem(n, idx) : idx \in (-1)..n} : n \in 0..McqMaxOpts}
       \cup { JObj(<<Member(K_options, Options(2)), Index(0)>>),
              JObj(<<Member(K_question, JStr(<<>>)), Member(K_options, Options(2)), Index(0)>>),
              JObj(<<Q, Index(0)>>),
              JObj(<<Q, Member(K_options, JStr(<<"a", "b">>)), Index(0)>>),
              JObj(<<Q, Member(K_options, Options(2))>>),
              JObj(<<Q, Member(K_options, Options(3)), Member(K_answer_index, JStr(<<"1">>))>>),
              JObj(<<Q, Member(K_options, Options(3)), Member(K_answer_index, JBool(TRUE))>>),
              JObj(<<Member(K_question, JNum(7)), Member(K_options, Options(2)), Index(1)>>),
              JStr(<<"Q">>) }

\* What gemini_json may return: parsed JSON (an array, an array wrapped in
\* "output", an AI Studio payload whose candidate text holds an array or
\* none), or the raw response (a str)
McqData ==
    LET CandidateText ==
            <<"[", "{", "\"", "q", "u", "e", "s", "t", "i", "o", "n", "\"", ":", "\"", "Q",
              "\"", ",", "\"", "o", "p", "t", "i", "o", "n", "s", "\"", ":", "[", "\"", "a",
              "\"", ",", "\"", "b", "\"", "]", ",", "\"", "a", "n", "s", "w", "e", "r", "_",
              "i", "n", "d", "e", "x", "\"", ":", "1", "}", "]">>
        Candidates(txt) ==
            JObj(<<Member(K_candidates, JArr(<<JObj(<<Member(K_content,
                JObj(<<Member(K_parts, JArr(<<JObj(<<Member(K_text, JStr(txt))>>)>>))>>))>>)>>))>>)
    IN {JArr(d) : d \in UNION {[1..n -> McqItems] : n \in 0..McqMaxItems}}
       \cup {JObj(<<Member(K_output, JArr(<<it>>))>>) : it \in {McqItem(2, 1), McqItem(5, 4)}}
       \cup {Candidates(CandidateText), Candidates(<<"n", "o">>), JStr(<<"n", "o">>), JObj(<<>>)}

McqInit ==
    /\ pc = "unwrap"
    /\ data \in McqData
    /\ filtered = <<>>
    /\ i = 0
    /\ result = NoResult
    /\ ScanIdle
    /\ FlashIdle
    /\ GenIdle
    /\ user_input = <<>>

\* opts = opts[:4] if len(opts) >= 4 else opts
TruncateOptions(opts) == IF Len(opts) >= 4 THEN SubSeq(opts, 1, 4) ELSE opts

\* A slip: the range test lets idx = len(opts) through
ClampIndexOffByOne(idx, opts) == IF 0 <= idx /\ idx <= Len(opts) THEN idx ELSE 0

\* if not (0 <= idx < len(opts)): idx = 0
ClampIndex(idx, opts) == IF 0 <= idx /\ idx < Len(opts) THEN idx ELSE 0

\* if q and isinstance(opts, list) and len(opts) >= 2 and isinstance(idx, int)
McqAccepts(item) ==
    /\ item.t = "obj"
    /\ Truthy(GetOr(item, K_question, JNull))
    /\ GetOr(item, K_options, JNull).t = "arr"
    /\ Len(GetOr(item, K_options, JNull).v) >= 2
    /\ IsInt(GetOr(item, K_answer_index, JNull))

\* The record appended to filtered
McqRecord(item) ==
    LET opts == TruncateOptions(Item(item, K_options).v)
    IN JObj(<<Member(K_question, Item(item, K_question)),
              Member(K_options, JArr(opts)),
              Member(K_answer_index, JNum(ClampIndex(IntOf(Item(item, K_answer_index)), opts))),
              Member(K_explanation, GetOr(item, K_explanation, JStr(<<>>)))>>)

\* data["candidates"][0]["content"]["parts"][0]["text"]: the value, or the
\* KeyError, IndexError or TypeError of the first subscript that fails
CandidateTextOf(d) ==
    LET c == Item(d, K_candidates)
    IN IF c.t # "arr" THEN Raised("TypeError")
       ELSE IF c.v = <<>> THEN Raised("IndexError")
       ELSE IF c.v[1].t # "obj" THEN Raised("TypeError")
       ELSE IF ~Has(c.v[1], K_content) THEN Raised("KeyError")
       ELSE LET ct == Item(c.v[1], K_content)
            IN IF ct.t # "obj" THEN Raised("TypeError")
               ELSE IF ~Has(ct, K_parts) THEN Raised("KeyError")
               ELSE LET ps == Item(ct, K_parts)
                    IN IF ps.t # "arr" THEN Raised("TypeError")
                       ELSE IF ps.v = <<>> THEN Raised("IndexError")
                       ELSE IF ps.v[1].t # "obj" THEN Raised("TypeError")
                       ELSE IF ~Has(ps.v[1], K_text) THEN Raised("KeyError")
                       ELSE Returned(Item(ps.v[1], K_text))

\* Lines 200-208: the wrappers are unwrapped, anything but a list is refused
McqUnwrap ==
    /\ pc = "unwrap"
    /\ LET d1 == IF data.t = "obj" /\ Has(data, K_output) THEN Item(data, K_output) ELSE data
           tx == IF d1.t = "obj" /\ Has(d1, K_candidates) THEN CandidateTextOf(d1) ELSE NoResult
           ld == IF tx.kind # "value" THEN tx
                 ELSE IF tx.val.t # "str" THEN Raised("AttributeError")
                 ELSE SafeLoadJson(tx.val.v)
           d2 == IF ld.kind = "value" THEN ld.val ELSE d1
       IN IF ld.kind \notin {"none", "value"}
          THEN /\ result' = ld
               /\ pc' = "done"
               /\ UNCHANGED <<data, i, filtered>>
          ELSE IF d2.t # "arr"
          THEN /\ result' = Raised("ValueError")
               /\ pc' = "done"
               /\ data' = d2
               /\ UNCHANGED <<i, filtered>>
          ELSE /\ data' = d2
               /\ filtered' = <<>>
               /\ i' = 1
               /\ pc' = "validate"
               /\ UNCHANGED result
    /\ UNCHANGED <<scanVars, flashVars>>
    /\ UNCHANGED genVars
    /\ UNCHANGED quizVars

\* for item in data: one pass of the loop body
McqValidate ==
    /\ pc = "validate"
    /\ i <= Len(data.v)
    /\ filtered' = IF McqAccepts(data.v[i])
                   THEN Append(filtered, McqRecord(data.v[i]))
                   ELSE filtered
    /\ i' = i + 1
    /\ UNCHANGED <<pc, result, data, scanVars, flashVars>>
    /\ UNCHANGED genVars
    /\ UNCHANGED quizVars

\* if not filtered: raise ValueError("Empty MCQ list from Gemini"); return filtered
McqFinish ==
    /\ pc = "validate"
    /\ i > Len(data.v)
    /\ result' = IF filtered = <<>> THEN Raised("ValueError") ELSE Returned(JArr(filtered))
    /\ pc' = "done"
    /\ UNCHANGED <<i, data, filtered, scanVars, flashVars>>
    /\ UNCHANGED genVars
    /\ UNCHANGED quizVars

McqNext == McqUnwrap \/ McqValidate \/ McqFinish

SpecMcq == McqInit /\ [][McqNext]_vars

\* Every emitted MCQ has at most 4 options and an answer_index within them
McqShapeOk(m) ==
    /\ Len(Item(m, K_options).v) <= 4
    /\ 0 <= Item(m, K_answer_index).v[1]
    /\ Item(m, K_answer_index).v[1] < Len(Item(m, K_options).v)

\* The record emitted for item is item truncated and clamped
McqEmittedFrom(m, item) ==
    LET inOpts == Item(item, K_options).v
        inIdx == IntOf(Item(item, K_answer_index))
        n == IF Len(inOpts) < 4 THEN Len(inOpts) ELSE 4
    IN /\ Item(m, K_options).v = [k \in 1..n |-> inOpts[k]]
       /\ Item(m, K_answer_index).v[1] = IF inIdx \in 0..(n - 1) THEN inIdx ELSE 0

\* C6: every MCQ emitted by build_mcqs_with_gemini has at most 4 options, the
\* first 4 of the input in input order, and 0 <= answer_index < len(options);
\* an input answer_index outside the truncated options becomes 0.
C6_McqOptionsAndIndex ==
    /\ [](\A k \in 1..Len(filtered) : McqShapeOk(filtered[k]))
    /\ [][Len(filtered') > Len(filtered) =>
            /\ filtered' = Append(filtered, filtered'[Len(filtered')])
            /\ McqEmittedFrom(filtered'[Len(filtered')], data.v[i])]_vars

\* item is an object whose question is a non-empty string, whose options are
\* at least 2 strings and whose answer_index is an integer
WellShapedMcq(item) ==
    /\ item.t = "obj"
    /\ GetOr(item, K_question, JNull).t = "str"
    /\ GetOr(item, K_question, JNull).v # <<>>
    /\ GetOr(item, K_options, JNull).t = "arr"
    /\ Len(GetOr(item, K_options, JNull).v) >= 2
    /\ \A k \in 1..Len(GetOr(item, K_options, JNull).v) :
          GetOr(item, K_options, JNull).v[k].t = "str"
    /\ GetOr(item, K_answer_index, JNull).t = "num"

\* C24 (as claimed): build_mcqs_with_gemini emits a record for an item
\* exactly when the item is an object whose question is a non-empty string,
\* whose options are at least 2 strings and whose answer_index is an integer;
\* any other item is dropped, the records are emitted in input order, and a
\* missing explanation becomes the empty string.
C24_EmitsExactlyWellShaped ==
    [][pc = "validate" /\ i <= Len(data.v) =>
            IF WellShapedMcq(data.v[i])
            THEN /\ Len(filtered') = Len(filtered) + 1
                 /\ SubSeq(filtered', 1, Len(filtered)) = filtered
                 /\ Item(filtered'[Len(filtered')], K_question) = Item(data.v[i], K_question)
                 /\ Item(filtered'[Len(filtered')], K_explanation)
                        = GetOr(data.v[i], K_explanation, JStr(<<>>))
            ELSE filtered' = filtered]_vars

\* C6 witness: 5 options with answer_index 4 were emitted as 4 options with
\* answer_index 0.
C6_Witness ==
    /\ pc = "validate"
    /\ i > 1
    /\ data.v[i - 1] = McqItem(5, 4)
    /\ filtered # <<>>
    /\ Item(filtered[Len(filtered)], K_options) = Options(4)
    /\ Item(filtered[Len(filtered)], K_answer_index) = JNum(0)

(***************************************************************************)
(* flashcards.create_fallback_flashcards                                   *)
(***************************************************************************)
UpperSeq == <<"A", "B", "C", "D", "E", "F", "G", "H", "I", "J", "K", "L", "M",
              "N", "O", "P", "Q", "R", "S", "T", "U", "V", "W", "X", "Y", "Z">>
LowerSeq == <<"a", "b", "c", "d", "e", "f", "g", "h", "i", "j", "k", "l", "m",
              "n", "o", "p", "q", "r", "s", "t", "u", "v", "w", "x", "y", "z">>

\* [A-Z], [a-zA-Z], \w
Upper == {UpperSeq[k] : k \in 1..26}
Letters == Upper \cup {LowerSeq[k] : k \in 1..26}
WordChars == Letters \cup Digits \cup {"_"}

\* str.lower()
LowerStr(s) ==
    [k \in 1..Len(s) |->
        IF s[k] \in Upper THEN LowerSeq[CHOOSE n \in 1..26 : UpperSeq[n] = s[k]] ELSE s[k]]

\* patterns[n - 1] matched at index k of s: [ok, term, definition, next], the
\* two groups and the index after the match.  A character that is neither
\* ASCII nor named here stands as its code point ("U+2013" is the en dash).
MatchPattern(n, s, k) ==
    LET NoMatch == [ok |-> FALSE, term |-> <<>>, definition |-> <<>>, next |-> 0]
        Match(t, d, e) == [ok |-> TRUE, term |-> t, definition |-> d, next |-> e]
        \* ^ under re.MULTILINE: the start of the text or of a line
        LineStart(p) == p = 1 \/ (p - 1 <= Len(s) /\ s[p - 1] = "\n")
        \* \s*([^.\n]+(?:\.[^.\n]*)*) from q: the greedy \s* gives characters
        \* back until the group can start; where the group starts, 0 if nowhere
        RECURSIVE DefStartBack(_, _)
        DefStartBack(q, p) ==
            IF p < q THEN 0
            ELSE IF p <= Len(s) /\ s[p] \notin {".", "\n"} THEN p
            ELSE DefStartBack(q, p - 1)
        \* The match, given the term s[a..b] and the index q after the
        \* separator: the definition group runs to the end of its line
        WithDefinition(a, b, q) ==
            LET p == DefStartBack(q, SkipWhile(s, q, Whitespace))
                e == SkipUntil(s, p, {"\n"})
            IN IF p = 0 THEN NoMatch ELSE Match(Slice(s, a, b), Slice(s, p, e - 1), e)
        \* \*\*([^*\n]+)\*\*\s*[:=]\s*([^.\n]+(?:\.[^.\n]*)*)
        Emphasized ==
            LET t1 == SkipUntil(s, k + 2, {"*", "\n"})
                w == SkipWhile(s, t1 + 2, Whitespace)
            IN IF /\ DelimAt(s, k, <<"*", "*">>)
                  /\ t1 > k + 2
                  /\ DelimAt(s, t1, <<"*", "*">>)
                  /\ w <= Len(s)
                  /\ s[w] \in {":", "="}
               THEN WithDefinition(k + 2, t1 - 1, w + 1)
               ELSE NoMatch
        \* ([A-Z][cls]+)\s*[seps] at p: the greedy class run, then a separator
        CapitalizedTerm(p, cls, seps) ==
            LET r == SkipWhile(s, p + 1, cls)
            IN IF p <= Len(s) /\ s[p] \in Upper /\ r > p + 1 /\ r <= Len(s) /\ s[r] \in seps
               THEN WithDefinition(p, r - 1, r + 1)
               ELSE NoMatch
        \* (?:^|\n)(...): the line start itself, or else a newline that is
        \* consumed
        AtLineOrNewline(cls, seps) ==
            IF LineStart(k) /\ CapitalizedTerm(k, cls, seps).ok
            THEN CapitalizedTerm(k, cls, seps)
            ELSE IF s[k] = "\n" THEN CapitalizedTerm(k + 1, cls, seps)
            ELSE NoMatch
        \* ([^#\n]+(?:\n[^#\n]+)*) from p: the index after the body
        RECURSIVE BodyEnd(_)
        BodyEnd(p) ==
            LET e == SkipUntil(s, p, {"#", "\n"})
            IN IF e + 1 <= Len(s) /\ s[e] = "\n" /\ s[e + 1] \notin {"#", "\n"}
               THEN BodyEnd(e + 1)
               ELSE e
        \* #+\s*([^#\n]+)\n(body) with the heading starting at p, for the
        \* starts p = w, w-1, ..., h that the greedy \s* tries in turn
        RECURSIVE HeadingFrom(_, _)
        HeadingFrom(h, p) ==
            LET r == SkipUntil(s, p, {"#", "\n"})
            IN IF p < h THEN NoMatch
               ELSE IF /\ p <= Len(s)
                       /\ s[p] \notin {"#", "\n"}
                       /\ r + 1 <= Len(s)
                       /\ s[r] = "\n"
                       /\ s[r + 1] \notin {"#", "\n"}
               THEN Match(Slice(s, p, r - 1), Slice(s, r + 1, BodyEnd(r + 1) - 1), BodyEnd(r + 1))
               ELSE HeadingFrom(h, p - 1)
        h0 == SkipWhile(s, k, {"#"})
    IN CASE n = 1 -> Emphasized
         \* ^([A-Z][a-zA-Z\s\-]+)\s*[:=]\s*([^.\n]+(?:\.[^.\n]*)*)
         [] n = 2 -> IF LineStart(k)
                     THEN CapitalizedTerm(k, Letters \cup Whitespace \cup {"-"}, {":", "="})
                     ELSE NoMatch
         \* (?:^|\n)([A-Z][a-zA-Z\s]+)\s*[-U+2013]\s*([^.\n]+(?:\.[^.\n]*)*)
         [] n = 3 -> AtLineOrNewline(Letters \cup Whitespace, {"-", "U+2013"})
         \* (?:^|\n)([A-Z][a-zA-Z\s]+):\s*([^.\n]+(?:\.[^.\n]*)*)
         [] n = 4 -> AtLineOrNewline(Letters \cup Whitespace, {":"})
         \* #+\s*([^#\n]+)\n([^#\n]+(?:\n[^#\n]+)*)
         [] n = 5 -> IF s[k] = "#" THEN HeadingFrom(h0, SkipWhile(s, h0, Whitespace))
                     ELSE NoMatch

\* re.findall(patterns[n - 1], s, re.MULTILINE) from k on
RECURSIVE FindAll(_, _, _)
FindAll(n, s, k) ==
    LET starts == {j \in k..Len(s) : MatchPattern(n, s, j).ok}
        m == MatchPattern(n, s, Least(starts))
    IN IF starts = {} THEN <<>> ELSE <<m>> \o FindAll(n, s, m.next)

K_answer == <<"a", "n", "s", "w", "e", "r">>
K_mnemonic == <<"m", "n", "e", "m", "o", "n", "i", "c">>

Flashcard(q, a, m) ==
    JObj(<<Member(K_question, JStr(q)), Member(K_answer, JStr(a)),
           Member(K_mnemonic, JStr(m))>>)

\* The quality checks of lines 159-161
Quality(term, definition) ==
    /\ Len(term) > 2
    /\ Len(definition) > 15
    /\ Len(term) < 100
    /\ Len(definition) < 500
    /\ ~StartsWith(LowerStr(term), <<"t", "h", "e", " ">>)
    /\ ~StartsWith(LowerStr(term), <<"a", " ">>)
    /\ ~StartsWith(LowerStr(term), <<"a", "n", " ">>)

\* The card of a match: "What is {term}?", the definition,
\* "Think of {term} as a key concept to remember! (key)"
TermCard(term, definition) ==
    Flashcard(<<"W", "h", "a", "t", " ", "i", "s", " ">> \o term \o <<"?">>,
              definition,
              <<"T", "h", "i", "n", "k", " ", "o", "f", " ">> \o term
              \o <<" ", "a", "s", " ", "a", " ", "k", "e", "y", " ", "c",
                   "o", "n", "c", "e", "p", "t", " ", "t", "o", " ", "r",
                   "e", "m", "e", "m", "b", "e", "r", "!", " ", "U+1F511">>)

\* for pattern in patterns: for term, definition in matches: the cards of
\* the matches that pass the quality checks, in order
PatternCards(s) ==
    LET RECURSIVE MatchCards(_)
        MatchCards(ms) ==
            IF ms = <<>> THEN <<>>
            ELSE LET term == Strip(Head(ms).term)
                     definition == Strip(Head(ms).definition)
                 IN (IF Quality(term, definition) THEN <<TermCard(term, definition)>> ELSE <<>>)
                    \o MatchCards(Tail(ms))
    IN MatchCards(FindAll(1, s, 1)) \o MatchCards(FindAll(2, s, 1))
       \o MatchCards(FindAll(3, s, 1)) \o MatchCards(FindAll(4, s, 1))
       \o MatchCards(FindAll(5, s, 1))

\* A slip: the key of a record is marked as seen before its answer is measured.
DedupMarksShort(cards0) ==
    LET DedupKey(q) == SelectSeq(LowerStr(q), LAMBDA c : c \in WordChars)
        RECURSIVE DedupFrom(_, _)
        DedupFrom(cards, seen) ==
            IF cards = <<>> THEN <<>>
            ELSE LET key == DedupKey(Item(Head(cards), K_question).v)
                 IN IF key \notin seen /\ Len(Item(Head(cards), K_answer).v) > 20
                    THEN <<Head(cards)>> \o DedupFrom(Tail(cards), seen \cup {key})
                    ELSE DedupFrom(Tail(cards), seen \cup {key})
    IN DedupFrom(cards0, {})

\* The loop of lines 173-177 over cards
Dedup(cards0) ==
    LET \* re.sub(r'[^\w]', '', card['question'].lower())
        DedupKey(q) == SelectSeq(LowerStr(q), LAMBDA c : c \in WordChars)
        RECURSIVE DedupFrom(_, _)
        DedupFrom(cards, seen) ==
            IF cards = <<>> THEN <<>>
            ELSE LET key == DedupKey(Item(Head(cards), K_question).v)
                 IN IF key \notin seen /\ Len(Item(Head(cards), K_answer).v) > 20
                    THEN <<Head(cards)>> \o DedupFrom(Tail(cards), seen \cup {key})
                    ELSE DedupFrom(Tail(cards), seen)
    IN DedupFrom(cards0, {})

\* frequent_terms of lines 182-188: the [term, count] pairs of the
\* capitalized words of s, the most frequent first, at most 10
FrequentTerms(s) ==
    LET \* \b[A-Z][a-zA-Z]{3,}\b at k: the index after the word, 0 if none
        WordAt(k) ==
            LET e == SkipWhile(s, k, Letters)
            IN IF /\ s[k] \in Upper
                  /\ (k = 1 \/ s[k - 1] \notin WordChars)
                  /\ e - k >= 4
                  /\ (e > Len(s) \/ s[e] \notin WordChars)
               THEN e ELSE 0
        \* re.findall(r'\b[A-Z][a-zA-Z]{3,}\b', content) from k on
        RECURSIVE Words(_)
        Words(k) ==
            LET starts == {j \in k..Len(s) : WordAt(j) > 0}
                a == Least(starts)
            IN IF starts = {} THEN <<>> ELSE <<Slice(s, a, WordAt(a) - 1)>> \o Words(WordAt(a))
        \* term_counts[term] = term_counts.get(term, 0) + 1, the dict in
        \* insertion order
        RECURSIVE CountTerms(_, _)
        CountTerms(terms, counts) ==
            IF terms = <<>> THEN counts
            ELSE LET t == Head(terms)
                     at == {n \in 1..Len(counts) : counts[n].term = t}
                 IN CountTerms(Tail(terms),
                        IF at = {} THEN Append(counts, [term |-> t, count |-> 1])
                        ELSE [n \in 1..Len(counts) |->
                                IF n \in at THEN [term |-> t, count |-> counts[n].count + 1]
                                ELSE counts[n]])
        \* sorted(items, key=count, reverse=True): stable, equal counts keep
        \* their order
        RECURSIVE InsertByCount(_, _)
        InsertByCount(sorted, x) ==
            IF sorted = <<>> THEN <<x>>
            ELSE IF Head(sorted).count >= x.count
            THEN <<Head(sorted)>> \o InsertByCount(Tail(sorted), x)
            ELSE <<x>> \o sorted
        RECURSIVE SortByCount(_, _)
        SortByCount(pairs, sorted) ==
            IF pairs = <<>> THEN sorted
            ELSE SortByCount(Tail(pairs), InsertByCount(sorted, Head(pairs)))
        all == SortByCount(CountTerms(Words(1), <<>>), <<>>)
    IN SubSeq(all, 1, IF Len(all) < 10 THEN Len(all) ELSE 10)

\* The card of a frequent term, lines 192-196
FrequentCard(term) ==
    Flashcard(<<"W", "h", "a", "t", " ", "i", "s", " ">> \o term \o <<"?">>,
              term
              \o <<" ", "i", "s", " ", "a", "n", " ", "i", "m", "p", "o",
                   "r", "t", "a", "n", "t", " ", "c", "o", "n", "c", "e",
                   "p", "t", " ", "f", "r", "o", "m", " ", "y", "o", "u",
                   "r", " ", "s", "t", "u", "d", "y", " ", "m", "a", "t",
                   "e", "r", "i", "a", "l", ".", " ", "R", "e", "v", "i",
                   "e", "w", " ", "t", "h", "e", " ", "s", "o", "u", "r",
                   "c", "e", " ", "f", "o", "r", " ", "d", "e", "t", "a",
                   "i", "l", "s", ".">>,
              <<"L", "o", "o", "k", " ", "u", "p", " ">> \o term
              \o <<" ", "i", "n", " ", "y", "o", "u", "r", " ", "n", "o",
                   "t", "e", "s", " ", "f", "o", "r", " ", "t", "h", "e",
                   " ", "f", "u", "l", "l", " ", "d", "e", "f", "i", "n",
                   "i", "t", "i", "o", "n", "!", " ", "U+1F4DA">>)

\* A slip: the count >= 2 test is left out
WithFrequentAnyCount(unique, s) ==
    IF Len(unique) < 5
    THEN unique \o [k \in 1..Len(FrequentTerms(s)) |-> FrequentCard(FrequentTerms(s)[k].term)]
    ELSE unique

\* if len(unique_flashcards) < 5: the terms met at least twice are added
WithFrequent(unique, s) ==
    LET twice == SelectSeq(FrequentTerms(s), LAMBDA t : t.count >= 2)
    IN IF Len(unique) < 5
       THEN unique \o [k \in 1..Len(twice) |-> FrequentCard(twice[k].term)]
       ELSE unique

\* The last resort card of lines 200-204
GenericCard ==
    Flashcard(<<"W", "h", "a", "t", " ", "a", "r", "e", " ", "t", "h", "e",
                " ", "m", "a", "i", "n", " ", "t", "o", "p", "i", "c", "s",
                " ", "c", "o", "v", "e", "r", "e", "d", " ", "i", "n", " ",
                "t", "h", "e", "s", "e", " ", "n", "o", "t", "e", "s", "?">>,
              <<"R", "e", "v", "i", "e", "w", " ", "y", "o", "u", "r", " ",
                "n", "o", "t", "e", "s", " ", "t", "o", " ", "i", "d", "e",
                "n", "t", "i", "f", "y", " ", "t", "h", "e", " ", "k", "e",
                "y", " ", "c", "o", "n", "c", "e", "p", "t", "s", " ", "a",
                "n", "d", " ", "t", "h", "e", "m", "e", "s">>,
              <<"N", "o", "t", "e", "s", " ", "a", "r", "e", " ", "l", "i",
                "k", "e", " ", "t", "r", "e", "a", "s", "u", "r", "e", " ",
                "m", "a", "p", "s", " ", "-", " ", "e", "x", "p", "l", "o",
                "r", "e", " ", "t", "h", "e", "m", " ", "f", "o", "r", " ",
                "k", "n", "o", "w", "l", "e", "d", "g", "e", "!", " ",
                "U+1F5FA", "U+FE0F">>)

\* A slip: the last resort block is left out
WithLastResortMissing(unique) == unique

\* if not unique_flashcards: the general card is appended
WithLastResort(unique) == IF unique = <<>> THEN <<GenericCard>> ELSE unique

\* create_fallback_flashcards(content)
CreateFallbackFlashcards(s) == WithLastResort(WithFrequent(Dedup(PatternCards(s)), s))

\* The pieces of notes the generator is run on
FbSegments ==
    << <<"*", "*", "P", "h", "o", "t", "o", "s", "y", "n", "t", "h", "e",
         "s", "i", "s", "*", "*">>,
       <<":", " ">>,
       <<"c", "o", "n", "v", "e", "r", "t", "i", "n", "g", " ", "l", "i",
         "g", "h", "t", " ", "t", "o", " ", "e", "n", "e", "r", "g", "y">>,
       <<"\n">>,
       <<"O", "s", "m", "o", "s", "i", "s">>,
       <<"O", "s", "m", "o", "s", "i", "s", " ", "m", "o", "v", "e", "s",
         " ", "w", "a", "t", "e", "r", " ", "s", "l", "o", "w", "l", "y">>,
       <<" ", "-", " ">>,
       <<"m", "o", "v", "e", "s", " ", "t", "h", "i", "n", "g", "s", " ",
         "s", "l", "o", "w", "l", "y">> >>

RECURSIVE Concat(_)
Concat(ss) == IF ss = <<>> THEN <<>> ELSE Head(ss) \o Concat(Tail(ss))

\* Three whole notes: one term defined twice, the first time in 19
\* characters; a heading with its body; and one term for each pattern
FbNotes ==
    { <<"O", "s", "m", "o", "s", "i", "s", " ", "-", " ", "m", "o", "v", "e",
        "s", " ", "t", "h", "i", "n", "g", "s", " ", "s", "l", "o", "w", "l",
        "y", "\n", "O", "s", "m", "o", "s", "i", "s", " ", "-", " ", "O", "s",
        "m", "o", "s", "i", "s", " ", "m", "o", "v", "e", "s", " ", "w", "a",
        "t", "e", "r", " ", "s", "l", "o", "w", "l", "y">>,
      <<"#", " ", "O", "s", "m", "o", "s", "i", "s", "\n", "c", "o", "n",
        "v", "e", "r", "t", "i", "n", "g", " ", "l", "i", "g", "h", "t", " ",
        "t", "o", " ", "e", "n", "e", "r", "g", "y", "\n", "a", "n", "d",
        " ", "m", "o", "r", "e", "\n", "#", "#", " ", "N", "e", "x", "t">>,
      <<"*", "*", "P", "h", "o", "t", "o", "s", "y", "n", "t", "h", "e", "s",
        "i", "s", "*", "*", ":", " ", "c", "o", "n", "v", "e", "r", "t", "i",
        "n", "g", " ", "l", "i", "g", "h", "t", " ", "t", "o", " ", "e", "n",
        "e", "r", "g", "y", "\n", "O", "s", "m", "o", "s", "i", "s", ":",
        " ", "w", "a", "t", "e", "r", " ", "m", "o", "v", "i", "n", "g", " ",
        "a", "c", "r", "o", "s", "s", " ", "a", " ", "m", "e", "m", "b", "r",
        "a", "n", "e", "\n", "M", "i", "t", "o", "s", "i", "s", " ", "-",
        " ", "d", "i", "v", "i", "s", "i", "o", "n", " ", "o", "f", " ", "o",
        "n", "e", " ", "c", "e", "l", "l", " ", "i", "n", "t", "o", " ", "t",
        "w", "o", " ", "c", "e", "l", "l", "s", "\n", "*", "*", "E", "n",
        "z", "y", "m", "e", "*", "*", " ", "=", " ", "a", " ", "p", "r", "o",
        "t", "e", "i", "n", " ", "t", "h", "a", "t", " ", "s", "p", "e", "e",
        "d", "s", " ", "u", "p", " ", "r", "e", "a", "c", "t", "i", "o", "n",
        "s", "\n", "#", " ", "D", "i", "f", "f", "u", "s", "i", "o", "n",
        "\n", "p", "a", "r", "t", "i", "c", "l", "e", "s", " ", "s", "p",
        "r", "e", "a", "d", "i", "n", "g", " ", "f", "r", "o", "m", " ", "h",
        "i", "g", "h", " ", "t", "o", " ", "l", "o", "w", " ", "c", "o", "n",
        "c", "e", "n", "t", "r", "a", "t", "i", "o", "n">> }

\* Up to FbMaxSegs pieces in any order
FbContents ==
    {Concat([k \in DOMAIN f |-> FbSegments[f[k]]]) :
        f \in UNION {[1..n -> 1..Len(FbSegments)] : n \in 0..FbMaxSegs}}

FbInit ==
    /\ pc = "patterns"
    /\ content \in FbContents \cup FbNotes
    /\ response = <<>>
    /\ flashcards = <<>>
    /\ valid_flashcards = <<>>
    /\ unique_flashcards = <<>>
    /\ i = 0
    /\ result = NoResult
    /\ ScanIdle
    /\ McqIdle
    /\ GenIdle
    /\ user_input = <<>>

\* for pattern in patterns: the matches that pass the quality checks
FbPatterns ==
    /\ pc = "patterns"
    /\ flashcards' = PatternCards(content)
    /\ pc' = "dedup"
    /\ UNCHANGED <<i, result, content, response, valid_flashcards, unique_flashcards, scanVars,
                   mcqVars>>
    /\ UNCHANGED genVars
    /\ UNCHANGED quizVars

\* Remove duplicates
FbDedup ==
    /\ pc = "dedup"
    /\ unique_flashcards' = Dedup(flashcards)
    /\ pc' = "frequent"
    /\ UNCHANGED <<i, result, content, response, flashcards, valid_flashcards, scanVars,
                   mcqVars>>
    /\ UNCHANGED genVars
    /\ UNCHANGED quizVars

\* If still not enough cards, create some generic ones
FbFrequent ==
    /\ pc = "frequent"
    /\ unique_flashcards' = WithFrequent(unique_flashcards, content)
    /\ pc' = "last"
    /\ UNCHANGED <<i, result, content, response, flashcards, valid_flashcards, scanVars,
                   mcqVars>>
    /\ UNCHANGED genVars
    /\ UNCHANGED quizVars

\* Last resort, and return unique_flashcards
FbReturn ==
    /\ pc = "last"
    /\ unique_flashcards' = WithLastResort(unique_flashcards)
    /\ result' = Returned(JArr(unique_flashcards'))
    /\ pc' = "done"
    /\ UNCHANGED <<i, content, response, flashcards, valid_flashcards, scanVars, mcqVars>>
    /\ UNCHANGED genVars
    /\ UNCHANGED quizVars

FbNext == FbPatterns \/ FbDedup \/ FbFrequent \/ FbReturn

SpecFallback == FbInit /\ [][FbNext]_vars

\* C8: create_fallback_flashcards on the empty text returns exactly one
\* record, the generic review-your-notes card, and raises nothing.
C8_EmptyTextGivesGenericCard ==
    pc = "done" /\ content = <<>> => result = Returned(JArr(<<GenericCard>>))

\* C8 witness: the run on the empty text came to its end with no pattern card
C8_Witness ==
    /\ pc = "done"
    /\ content = <<>>
    /\ flashcards = <<>>
    /\ result.kind = "value"
    /\ Len(result.val.v) = 1

(***************************************************************************)
(* flashcards.extract_concepts_from_notes, for content of at most 8000     *)
(* characters                                                              *)
(***************************************************************************)
\* sep.join(ss)
RECURSIVE JoinWith(_, _)
JoinWith(ss, sep) ==
    IF ss = <<>> THEN <<>>
    ELSE IF Len(ss) = 1 THEN Head(ss)
    ELSE Head(ss) \o sep \o JoinWith(Tail(ss), sep)

\* What the Gemini CLI may print for the flashcard prompt: prose, a fence, an
\* array of up to FlMaxCards records and a fence, each of them or not; and
\* some that hold no array.
FlashStdouts ==
    LET prose ==
            << <<>>,
               <<"H", "e", "r", "e", " ", "y", "o", "u", " ", "g", "o", ":",
                 "\n">>,
               <<"N", "o", "t", "e", " ", "[", "1", "]", ":", " ">> >>
        fenceOpen == <<Backtick, Backtick, Backtick, "j", "s", "o", "n", "\n">>
        fenceClose == <<"\n", Backtick, Backtick, Backtick>>
        \* A plain record, two whose questions differ in case, one with empty
        \* texts, one with a number for answer, one without question, one
        \* with null for answer, and an element that is no record
        records ==
            << <<"{", "\"", "q", "u", "e", "s", "t", "i", "o", "n", "\"",
                 ":", "\"", "W", "h", "a", "t", " ", "i", "s", " ", "X", "?",
                 "\"", ",", "\"", "a", "n", "s", "w", "e", "r", "\"", ":",
                 "\"", "Y", "\"", "}">>,
               <<"{", "\"", "q", "u", "e", "s", "t", "i", "o", "n", "\"",
                 ":", "\"", "Q", "1", "\"", ",", "\"", "a", "n", "s", "w",
                 "e", "r", "\"", ":", "\"", "A", "1", "\"", "}">>,
               <<"{", "\"", "q", "u", "e", "s", "t", "i", "o", "n", "\"",
                 ":", "\"", "q", "1", "\"", ",", "\"", "a", "n", "s", "w",
                 "e", "r", "\"", ":", "\"", "A", "1", " ", "d", "u", "p",
                 "\"", "}">>,
               <<"{", "\"", "q", "u", "e", "s", "t", "i", "o", "n", "\"",
                 ":", "\"", "\"", ",", "\"", "a", "n", "s", "w", "e", "r",
                 "\"", ":", "\"", "\"", "}">>,
               <<"{", "\"", "q", "u", "e", "s", "t", "i", "o", "n", "\"",
                 ":", "\"", "Q", "2", "\"", ",", "\"", "a", "n", "s", "w",
                 "e", "r", "\"", ":", "5", "}">>,
               <<"{", "\"", "a", "n", "s", "w", "e", "r", "\"", ":", "\"",
                 "A", "3", "\"", ",", "\"", "m", "n", "e", "m", "o", "n",
                 "i", "c", "\"", ":", "\"", "\"", "}">>,
               <<"{", "\"", "q", "u", "e", "s", "t", "i", "o", "n", "\"",
                 ":", "\"", "Q", "3", "\"", ",", "\"", "a", "n", "s", "w",
                 "e", "r", "\"", ":", "n", "u", "l", "l", ",", "\"", "m",
                 "n", "e", "m", "o", "n", "i", "c", "\"", ":", "\"", "m",
                 "\"", "}">>,
               <<"7">> >>
        Array(rs) == <<"[">> \o JoinWith(rs, <<",">>) \o <<"]">>
        arrays ==
            {Array([k \in DOMAIN f |-> records[f[k]]]) :
                f \in UNION {[1..n -> 1..Len(records)] : n \in 0..FlMaxCards}}
        \* An answer of eleven records, one more than the validation reads
        eleven == Array([k \in 1..11 |-> IF k = 11 THEN records[4] ELSE records[2]])
        noArray ==
            { <<"n", "o", " ", "j", "s", "o", "n", " ", "h", "e", "r", "e">>,
              <<"[", "{", "\"", "q", "u", "e", "s", "t", "i", "o", "n", "\"",
                ":", "\"", "Q", "1", "\"">>,
              <<"\n">> }
        stdouts ==
            {prose[p] \o open \o a \o close :
                p \in 1..Len(prose), open \in {<<>>, fenceOpen},
                a \in arrays, close \in {<<>>, fenceClose}}
            \cup noArray \cup {eleven}
    IN stdouts

\* subprocess.run of the Gemini CLI: the binary is missing, the run times out,
\* another exception is raised, or the process exits with a return code
Subprocess(stdouts) ==
    {[kind |-> k, returncode |-> 0, stdout |-> <<>>] :
        k \in {"FileNotFoundError", "TimeoutExpired", "Exception"}}
    \cup {[kind |-> "exit", returncode |-> 1, stdout |-> o] : o \in {<<>>, <<"[", "]">>}}
    \cup {[kind |-> "exit", returncode |-> 0, stdout |-> o] : o \in stdouts \cup {<<>>}}

\* utils.call_gemini_cli: "" when the run fails, else its stdout stripped
CallGeminiCli(run) ==
    IF run.kind = "exit" /\ run.returncode = 0 THEN Strip(run.stdout) ELSE <<>>

\* Lines 56-60: the lines that start with a fence are dropped, but only when
\* the response itself starts with a fence
CleanedResponse(r) ==
    LET fence == <<Backtick, Backtick, Backtick>>
        \* s.split('\n')
        RECURSIVE SplitLines(_)
        SplitLines(s) ==
            LET e == SkipUntil(s, 1, {"\n"})
            IN IF e > Len(s) THEN <<s>>
               ELSE <<Slice(s, 1, e - 1)>> \o SplitLines(Slice(s, e + 1, Len(s)))
        cleaned == Strip(r)
    IN IF StartsWith(cleaned, fence)
       THEN JoinWith(SelectSeq(SplitLines(cleaned), LAMBDA line : ~StartsWith(line, fence)),
                     <<"\n">>)
       ELSE cleaned

\* re.search(r'\[.*\]', s, re.DOTALL): from the first '[' to the last ']'
JsonMatch(s) ==
    LET opens == {k \in 1..Len(s) : s[k] = "["}
        a == Least(opens)
        closes == {k \in 1..Len(s) : s[k] = "]" /\ k > a}
        b == CHOOSE k \in closes : \A c \in closes : c <= k
    IN IF opens = {} \/ closes = {} THEN [ok |-> FALSE, str |-> <<>>]
       ELSE [ok |-> TRUE, str |-> SubSeq(s, a, b)]

\* str(n) for n >= 0
RECURSIVE ToStr(_)
ToStr(n) ==
    LET d == <<"0", "1", "2", "3", "4", "5", "6", "7", "8", "9">>[(n % 10) + 1]
    IN IF n < 10 THEN <<d>> ELSE ToStr(n \div 10) \o <<d>>

\* f"Remember: {card['answer'][:50]}... (brain)"
Mnemonic(answer) ==
    <<"R", "e", "m", "e", "m", "b", "e", "r", ":", " ">>
    \o SubSeq(answer, 1, IF Len(answer) < 50 THEN Len(answer) ELSE 50)
    \o <<".", ".", ".", " ", "U+1F9E0">>

\* A slip: the mnemonic is required as the two other keys are
FlashAcceptsWithMnemonic(card) ==
    card.t = "obj" /\ Has(card, K_question) /\ Has(card, K_answer) /\ Has(card, K_mnemonic)

\* isinstance(card, dict) and 'question' in card and 'answer' in card
FlashAccepts(card) == card.t = "obj" /\ Has(card, K_question) /\ Has(card, K_answer)

\* 'mnemonic' not in card or not card['mnemonic']
NeedsMnemonic(card) == ~Has(card, K_mnemonic) \/ ~Truthy(Item(card, K_mnemonic))

\* card['answer'][:50] raises TypeError unless the answer can be sliced
SliceRaises(answer) ==
    CASE answer.t = "str" -> FALSE
      [] answer.t \in {"null", "bool", "num", "obj"} -> TRUE

\* A slip: the padding record is numbered by the records before it.
PaddingCardNumberedFromZero(n) ==
    Flashcard(<<"E", "x", "t", "r", "a", " ", "c", "o", "n", "c", "e", "p",
                "t", " ">>
              \o ToStr(n) \o <<"?">>,
              <<"R", "e", "v", "i", "e", "w", " ", "y", "o", "u", "r", " ",
                "n", "o", "t", "e", "s", " ", "f", "o", "r", " ", "d", "e",
                "t", "a", "i", "l", "s", ".">>,
              <<"K", "e", "e", "p", " ", "p", "r", "a", "c", "t", "i", "c",
                "i", "n", "g", " ", "U+1F4DA">>)

\* The padding record appended when valid_flashcards holds n records
PaddingCard(n) ==
    Flashcard(<<"E", "x", "t", "r", "a", " ", "c", "o", "n", "c", "e", "p",
                "t", " ">>
              \o ToStr(n + 1) \o <<"?">>,
              <<"R", "e", "v", "i", "e", "w", " ", "y", "o", "u", "r", " ",
                "n", "o", "t", "e", "s", " ", "f", "o", "r", " ", "d", "e",
                "t", "a", "i", "l", "s", ".">>,
              <<"K", "e", "e", "p", " ", "p", "r", "a", "c", "t", "i", "c",
                "i", "n", "g", " ", "U+1F4DA">>)

\* while len(valid_flashcards) < 10: valid_flashcards.append(...)
RECURSIVE PadToTen(_)
PadToTen(valid) ==
    IF Len(valid) < 10 THEN PadToTen(Append(valid, PaddingCard(Len(valid)))) ELSE valid

\* return create_fallback_flashcards(content)
Fallback(c) == Returned(JArr(CreateFallbackFlashcards(c)))

FlInit ==
    /\ pc = "call"
    /\ content \in {<<>>, Concat(SubSeq(FbSegments, 1, 3)),
                    Concat(<<FbSegments[5], FbSegments[2], FbSegments[6]>>)}
    /\ response = <<>>
    /\ flashcards = <<>>
    /\ valid_flashcards = <<>>
    /\ unique_flashcards = <<>>
    /\ i = 0
    /\ result = NoResult
    /\ ScanIdle
    /\ McqIdle
    /\ GenIdle
    /\ user_input = <<>>

\* response = call_gemini_cli(prompt, model="gemini-2.5-flash")
FlCallOn(stdouts) ==
    /\ pc = "call"
    /\ Len(content) <= 8000
    /\ \E run \in Subprocess(stdouts) :
            /\ proc' = run
            /\ response' = CallGeminiCli(run)
    /\ pc' = "respond"
    /\ UNCHANGED <<i, result, content, flashcards, valid_flashcards, unique_flashcards,
                   scanVars, mcqVars, hostVars>>
    /\ UNCHANGED quizVars

FlCall == FlCallOn(FlashStdouts)

\* if not response: return create_fallback_flashcards(content)
FlNoResponse ==
    /\ pc = "respond"
    /\ response = <<>>
    /\ result' = Fallback(content)
    /\ pc' = "done"
    /\ UNCHANGED <<i, content, response, flashcards, valid_flashcards, unique_flashcards,
                   scanVars, mcqVars>>
    /\ UNCHANGED genVars
    /\ UNCHANGED quizVars

\* json_match is None: the function falls off its end and returns None
FlNoMatch ==
    /\ pc = "respond"
    /\ response # <<>>
    /\ ~JsonMatch(CleanedResponse(response)).ok
    /\ result' = Returned(JNull)
    /\ pc' = "done"
    /\ UNCHANGED <<i, content, response, flashcards, valid_flashcards, unique_flashcards,
                   scanVars, mcqVars>>
    /\ UNCHANGED genVars
    /\ UNCHANGED quizVars

\* flashcards = json.loads(json_str); json.JSONDecodeError gives the fallback
FlParse ==
    /\ pc = "respond"
    /\ response # <<>>
    /\ JsonMatch(CleanedResponse(response)).ok
    /\ LET r == JsonLoads(JsonMatch(CleanedResponse(response)).str)
       IN IF r.ok
          THEN /\ flashcards' = r.val.v
               /\ i' = 1
               /\ pc' = "validate"
               /\ UNCHANGED result
          ELSE /\ result' = Fallback(content)
               /\ pc' = "done"
               /\ UNCHANGED <<i, flashcards>>
    /\ UNCHANGED <<content, response, valid_flashcards, unique_flashcards, scanVars, mcqVars>>
    /\ UNCHANGED genVars
    /\ UNCHANGED quizVars

\* One turn of for card in flashcards[:10]; a TypeError gives the fallback
FlValidate ==
    /\ pc = "validate"
    /\ i <= Len(flashcards)
    /\ i <= 10
    /\ LET card == flashcards[i]
       IN IF ~FlashAccepts(card)
          THEN /\ i' = i + 1
               /\ UNCHANGED <<pc, result, valid_flashcards>>
          ELSE IF ~NeedsMnemonic(card)
          THEN /\ valid_flashcards' = Append(valid_flashcards, card)
               /\ i' = i + 1
               /\ UNCHANGED <<pc, result>>
          ELSE IF SliceRaises(Item(card, K_answer))
          THEN /\ result' = Fallback(content)
               /\ pc' = "done"
               /\ UNCHANGED <<i, valid_flashcards>>
          ELSE /\ valid_flashcards' =
                    Append(valid_flashcards,
                           JObj(ObjSet(card.v, K_mnemonic,
                                       JStr(Mnemonic(Item(card, K_answer).v)))))
               /\ i' = i + 1
               /\ UNCHANGED <<pc, result>>
    /\ UNCHANGED <<content, response, flashcards, unique_flashcards, scanVars, mcqVars>>
    /\ UNCHANGED genVars
    /\ UNCHANGED quizVars

\* The padding block and the return of lines 77-89
FlPad ==
    /\ pc = "validate"
    /\ i > Len(flashcards) \/ i > 10
    /\ valid_flashcards' = PadToTen(valid_flashcards)
    /\ result' = IF valid_flashcards' # <<>> THEN Returned(JArr(valid_flashcards'))
                 ELSE Fallback(content)
    /\ pc' = "done"
    /\ UNCHANGED <<i, content, response, flashcards, unique_flashcards, scanVars, mcqVars>>
    /\ UNCHANGED genVars
    /\ UNCHANGED quizVars

FlNext == FlCall \/ FlNoResponse \/ FlNoMatch \/ FlParse \/ FlValidate \/ FlPad

SpecFlash == FlInit /\ [][FlNext]_vars

\* A value that is a string with something left after trimming
NonEmptyStr(v) == v.t = "str" /\ Strip(v.v) # <<>>

\* C5: no flashcard that the validation step of extract_concepts_from_notes
\* emits has a question or an answer that is not a string or is empty after
\* trimming.
C5_ValidationEmitsNonEmptyStrings ==
    \A k \in 1..Len(valid_flashcards) :
        /\ NonEmptyStr(GetOr(valid_flashcards[k], K_question, JNull))
        /\ NonEmptyStr(GetOr(valid_flashcards[k], K_answer, JNull))

\* question.lower().strip(): the normalized question of a record
NormalizedQuestion(card) == Strip(LowerStr(Item(card, K_question).v))

\* C7: every flashcard sequence that extract_concepts_from_notes returns
\* holds at most one record per normalized question (case-folded, trimmed),
\* so that an answer with the questions Q1 and q1 yields only the first.
C7_OneRecordPerQuestion ==
    pc = "done" /\ result.kind = "value" /\ result.val.t = "arr" =>
        \A a, b \in 1..Len(result.val.v) :
            a < b => NormalizedQuestion(result.val.v[a]) # NormalizedQuestion(result.val.v[b])

\* The answers of scenario A: prose (if any) without brackets, then a fenced
\* block holding the array of the one record without a mnemonic
ProseFencedSingle ==
    { <<"H", "e", "r", "e", " ", "y", "o", "u", " ", "g", "o", ":", "\n",
        Backtick, Backtick, Backtick, "j", "s", "o", "n", "\n", "[", "{",
        "\"", "q", "u", "e", "s", "t", "i", "o", "n", "\"", ":", "\"", "W",
        "h", "a", "t", " ", "i", "s", " ", "X", "?", "\"", ",", "\"", "a",
        "n", "s", "w", "e", "r", "\"", ":", "\"", "Y", "\"", "}", "]", "\n",
        Backtick, Backtick, Backtick>>,
      <<Backtick, Backtick, Backtick, "j", "s", "o", "n", "\n", "[", "{",
        "\"", "q", "u", "e", "s", "t", "i", "o", "n", "\"", ":", "\"", "W",
        "h", "a", "t", " ", "i", "s", " ", "X", "?", "\"", ",", "\"", "a",
        "n", "s", "w", "e", "r", "\"", ":", "\"", "Y", "\"", "}", "]", "\n",
        Backtick, Backtick, Backtick>> }

\* The record of scenario A with the mnemonic made from its answer
SynthesizedCard ==
    Flashcard(<<"W", "h", "a", "t", " ", "i", "s", " ", "X", "?">>, <<"Y">>,
              <<"R", "e", "m", "e", "m", "b", "e", "r", ":", " ", "Y", ".",
                ".", ".", " ", "U+1F9E0">>)

ExtraConcept(n) ==
    Flashcard(<<"E", "x", "t", "r", "a", " ", "c", "o", "n", "c", "e", "p",
                "t", " ">>
              \o ToStr(n) \o <<"?">>,
              <<"R", "e", "v", "i", "e", "w", " ", "y", "o", "u", "r", " ",
                "n", "o", "t", "e", "s", " ", "f", "o", "r", " ", "d", "e",
                "t", "a", "i", "l", "s", ".">>,
              <<"K", "e", "e", "p", " ", "p", "r", "a", "c", "t", "i", "c",
                "i", "n", "g", " ", "U+1F4DA">>)

PhotosynthesisNotes ==
    <<"*", "*", "P", "h", "o", "t", "o", "s", "y", "n", "t", "h", "e", "s",
      "i", "s", "*", "*", ":", " ", "c", "o", "n", "v", "e", "r", "t", "i",
      "n", "g", " ", "l", "i", "g", "h", "t", " ", "t", "o", " ", "e", "n",
      "e", "r", "g", "y">>

\* C10: with the empty answer and the notes
\* **Photosynthesis**: converting light to energy, extract_concepts_from_notes
\* returns exactly one flashcard, about the term Photosynthesis, whose answer
\* is the definition.
C10_EmptyResponseGivesOnePatternCard ==
    pc = "done" /\ response = <<>> /\ content = PhotosynthesisNotes =>
        /\ result.kind = "value"
        /\ result.val.t = "arr"
        /\ Len(result.val.v) = 1
        /\ Item(result.val.v[1], K_question)
            = JStr(<<"W", "h", "a", "t", " ", "i", "s", " ", "P", "h", "o",
                   "t", "o", "s", "y", "n", "t", "h", "e", "s", "i", "s", "?">>)
        /\ Item(result.val.v[1], K_answer)
            = JStr(<<"c", "o", "n", "v", "e", "r", "t", "i", "n", "g", " ",
                   "l", "i", "g", "h", "t", " ", "t", "o", " ", "e", "n",
                   "e", "r", "g", "y">>)

\* C10 witness: the fallback ran on those notes after an empty answer
C10_Witness ==
    /\ pc = "done"
    /\ response = <<>>
    /\ content = PhotosynthesisNotes
    /\ flashcards = <<>>
    /\ result.kind = "value"
    /\ result.val.v # <<>>

\* The answer holds a '[...]' span that json.loads accepts
ParsesToArray(r) ==
    LET jm == JsonMatch(CleanedResponse(r))
    IN jm.ok /\ JsonLoads(jm.str).ok

\* C11: whenever the answer is not empty but holds no parseable JSON (no
\* '[...]' span at all, or a span that json.loads refuses),
\* extract_concepts_from_notes returns create_fallback_flashcards of the same
\* content, never None or another value.
C11_NoJsonGivesFallback ==
    pc = "done" /\ response # <<>> /\ ~ParsesToArray(response) =>
        result = Fallback(content)

\* C12: whenever the answer parses to an array in which no record passes the
\* validation, extract_concepts_from_notes returns
\* create_fallback_flashcards of the content.
C12_NoValidRecordGivesFallback ==
    pc = "done" /\ response # <<>> /\ ParsesToArray(response)
        /\ (\A k \in 1..Len(flashcards) : ~FlashAccepts(flashcards[k])) =>
        result = Fallback(content)

\* A record whose question and answer are non-empty strings
WellFormedCard(card) ==
    /\ card.t = "obj"
    /\ NonEmptyStr(GetOr(card, K_question, JNull))
    /\ NonEmptyStr(GetOr(card, K_answer, JNull))

\* C14: a record of the parsed array with a malformed or missing field is only
\* omitted: every well-formed record among the first 10 of the array is still
\* in what extract_concepts_from_notes returns.
C14_MalformedRecordOnlyOmitted ==
    pc = "done" /\ response # <<>> /\ ParsesToArray(response) =>
        \A k \in 1..Len(flashcards) :
            k <= 10 /\ WellFormedCard(flashcards[k]) =>
                /\ result.kind = "value"
                /\ result.val.t = "arr"
                /\ \E j \in 1..Len(result.val.v) :
                        /\ Item(result.val.v[j], K_question) = Item(flashcards[k], K_question)
                        /\ Item(result.val.v[j], K_answer) = Item(flashcards[k], K_answer)

\* The array that json.loads makes of the '[...]' span of the answer r
ParsedArray(r) == JsonLoads(JsonMatch(CleanedResponse(r)).str).val.v

\* The records of the first 10 elements of arr that pass the validation
ValidAmongFirstTen(arr) ==
    SelectSeq(SubSeq(arr, 1, IF Len(arr) < 10 THEN Len(arr) ELSE 10), FlashAccepts)

\* No record among the first 10 of arr makes the validation raise: a record
\* that needs a mnemonic has an answer of which the first 50 characters can
\* be taken
ValidationRaisesNothing(arr) ==
    \A k \in 1..Len(ValidAmongFirstTen(arr)) :
        NeedsMnemonic(ValidAmongFirstTen(arr)[k]) =>
            Item(ValidAmongFirstTen(arr)[k], K_answer).t = "str"

Contains(s, w) == \E p \in 1..(Len(s) - Len(w) + 1) : DelimAt(s, p, w)

\* The function: the first intent one of whose words is in the lowered input
ParseStudyIntent(s) ==
    LET user_lower == LowerStr(s)
        any(ws) == \E word \in ws : Contains(user_lower, word)
    IN IF any({<<"f", "l", "a", "s", "h", "c", "a", "r", "d">>,
                 <<"f", "l", "a", "s", "h", " ", "c", "a", "r", "d">>,
                 <<"g", "e", "n", "e", "r", "a", "t", "e">>,
                 <<"c", "r", "e", "a", "t", "e", " ", "c", "a", "r", "d">>})
       THEN JStr(<<"g", "e", "n", "e", "r", "a", "t", "e", "_", "f", "l", "a", "s", "h", "c",
         "a", "r", "d", "s">>)
       ELSE IF any({<<"q", "u", "i", "z">>,
                 <<"t", "e", "s", "t">>,
                 <<"q", "u", "e", "s", "t", "i", "o", "n">>,
                 <<"a", "s", "k", " ", "m", "e">>})
       THEN JStr(<<"s", "t", "a", "r", "t", "_", "q", "u", "i", "z">>)
       ELSE IF any({<<"m", "c", "q">>,
                 <<"m", "u", "l", "t", "i", "p", "l", "e", " ", "c", "h", "o", "i", "c", "e">>,
                 <<"c", "h", "o", "i", "c", "e", " ", "q", "u", "e", "s", "t", "i", "o", "n">>})
       THEN JStr(<<"m", "c", "q", "_", "q", "u", "i", "z">>)
       ELSE IF any({<<"p", "r", "o", "g", "r", "e", "s", "s">>,
                 <<"s", "t", "a", "t", "s">>,
                 <<"s", "t", "a", "t", "i", "s", "t", "i", "c", "s">>,
                 <<"h", "o", "w", " ", "a", "m", " ", "i", " ", "d", "o", "i", "n", "g">>})
       THEN JStr(<<"s", "h", "o", "w", "_", "s", "t", "a", "t", "s">>)
       ELSE IF any({<<"h", "e", "l", "p">>,
                 <<"w", "h", "a", "t", " ", "c", "a", "n">>,
                 <<"o", "p", "t", "i", "o", "n", "s">>})
       THEN JStr(<<"s", "h", "o", "w", "_", "h", "e", "l", "p">>)
       ELSE JNull

\* The phrases the help text of show_conversational_help advertises, each
\* with the action of the help line it stands on
Advertised ==
    { <<<<"c", "r", "e", "a", "t", "e", " ", "f", "l", "a", "s", "h", "c", "a", "r", "d", "s">>,
        <<"g", "e", "n", "e", "r", "a", "t", "e", "_", "f", "l", "a", "s", "h", "c", "a", "r",
          "d", "s">>>>,
      <<<<"m", "a", "k", "e", " ", "c", "a", "r", "d", "s">>,
        <<"g", "e", "n", "e", "r", "a", "t", "e", "_", "f", "l", "a", "s", "h", "c", "a", "r",
          "d", "s">>>>,
      <<<<"q", "u", "i", "z", " ", "m", "e">>,
        <<"s", "t", "a", "r", "t", "_", "q", "u", "i", "z">>>>,
      <<<<"a", "s", "k", " ", "q", "u", "e", "s", "t", "i", "o", "n", "s">>,
        <<"s", "t", "a", "r", "t", "_", "q", "u", "i", "z">>>>,
      <<<<"t", "e", "s", "t", " ", "m", "e">>,
        <<"s", "t", "a", "r", "t", "_", "q", "u", "i", "z">>>>,
      <<<<"M", "C", "Q", " ", "q", "u", "i", "z">>,
        <<"m", "c", "q", "_", "q", "u", "i", "z">>>>,
      <<<<"m", "u", "l", "t", "i", "p", "l", "e", " ", "c", "h", "o", "i", "c", "e", " ", "q",
        "u", "e", "s", "t", "i", "o", "n", "s">>,
        <<"m", "c", "q", "_", "q", "u", "i", "z">>>>,
      <<<<"h", "o", "w", " ", "a", "m", " ", "I", " ", "d", "o", "i", "n", "g", "?">>,
        <<"s", "h", "o", "w", "_", "s", "t", "a", "t", "s">>>>,
      <<<<"s", "h", "o", "w", " ", "m", "y", " ", "s", "t", "a", "t", "s">>,
        <<"s", "h", "o", "w", "_", "s", "t", "a", "t", "s">>>> }

\* The inputs: at most IntentMaxWords pieces with a blank between them, a
\* piece being an advertised phrase or one of some other words
IntentInputs ==
    LET pieces == {a[1] : a \in Advertised}
                  \cup {<<"h", "e", "l", "p">>, <<"M", "y", " ", "p", "r", "o", "g", "r", "e",
                    "s", "s">>, <<"o", "p", "t", "i", "o", "n", "s">>, <<"p", "l", "e", "a",
                      "s", "e">>, <<"G", "e", "n", "e", "r", "a", "t", "e">>, <<"f", "l", "a",
                        "s", "h", " ", "c", "a", "r", "d">>, <<"a", "s", "k", " ", "m", "e">>}
        RECURSIVE Phrases(_)
        Phrases(n) ==
            IF n = 0 THEN {<<>>}
            ELSE Phrases(n - 1)
                 \cup {IF p = <<>> THEN w ELSE p \o <<" ">> \o w :
                        p \in Phrases(n - 1), w \in pieces}
    IN Phrases(IntentMaxWords)

IntentInit ==
    /\ pc = "intent"
    /\ user_input \in IntentInputs
    /\ i = 0
    /\ result = NoResult
    /\ ScanIdle
    /\ FlashIdle
    /\ McqIdle
    /\ GenIdle

\* action = self.parse_study_intent(user_input)
IntentParse ==
    /\ pc = "intent"
    /\ result' = Returned(ParseStudyIntent(user_input))
    /\ pc' = "done"
    /\ UNCHANGED <<i, scanVars, flashVars, mcqVars, genVars>>
    /\ UNCHANGED quizVars

SpecIntent == IntentInit /\ [][IntentParse]_vars

\* C19: parse_study_intent maps every phrase the help text advertises to the
\* action of its help line: create flashcards and make cards to
\* generate_flashcards; quiz me, ask questions and test me to start_quiz; MCQ
\* quiz and multiple choice questions to mcq_quiz; how am I doing? and show
\* my stats to show_stats.
C19_AdvertisedPhrasesMapped ==
    pc = "done" =>
        \A a \in Advertised : user_input = a[1] => result = Returned(JStr(a[2]))

(***************************************************************************)
(* mcq.generate_mcqs, with mcq.parse_notes_for_concepts,                   *)
(* mcq.build_mcqs_locally and utils.gemini_json                            *)
(***************************************************************************)
\* parse_notes_for_concepts, as defined last in the file (lines 131-150)
ParseNotesForConcepts(notes) ==
    LET \* notes_text.splitlines(); the loop skips the empty lines
        RECURSIVE Lines(_)
        Lines(s) ==
            LET e == SkipUntil(s, 1, {"\n", "\r"})
            IN IF e > Len(s) THEN <<s>>
               ELSE <<Slice(s, 1, e - 1)>> \o Lines(Slice(s, e + 1, Len(s)))
        NoMatch == [ok |-> FALSE, term |-> <<>>, definition |-> <<>>]
        \* \s*:\s*(.+)$ from index p of the line, after the group g
        Rest(line, p, g) ==
            LET c == SkipWhile(line, p, Whitespace)
                q == SkipWhile(line, c + 1, Whitespace)
            IN IF c > Len(line) \/ line[c] # ":" \/ c = Len(line) THEN NoMatch
               ELSE [ok |-> TRUE, term |-> Strip(g),
                     definition |-> Strip(IF q <= Len(line) THEN Slice(line, q, Len(line))
                                          ELSE <<line[Len(line)]>>)]
        \* ^\*\*(.+?)\*\*\s*:\s*(.+)$
        Bold(line) ==
            LET ends == {e \in 3..Len(line) :
                            /\ DelimAt(line, e + 1, <<"*", "*">>)
                            /\ Rest(line, e + 3, Slice(line, 3, e)).ok}
            IN IF StartsWith(line, <<"*", "*">>) /\ ends # {}
               THEN Rest(line, Least(ends) + 3, Slice(line, 3, Least(ends)))
               ELSE NoMatch
        \* ^([^:]{2,}?)\s*:\s*(.+)$
        Plain(line) ==
            LET c == SkipUntil(line, 1, {":"})
                last == SkipBack(line, c - 1, Whitespace)
                n == IF last < 2 THEN 2 ELSE last
            IN IF c > Len(line) \/ c < 3 THEN NoMatch
               ELSE Rest(line, n + 1, Slice(line, 1, n))
        Concept(raw) ==
            LET line == StripChars(raw, {"-", " ", "*", "\t"})
            IN IF line = <<>> THEN NoMatch
               ELSE IF Bold(line).ok THEN Bold(line)
               ELSE Plain(line)
        found == SelectSeq([k \in 1..Len(Lines(notes)) |-> Concept(Lines(notes)[k])],
                           LAMBDA c : c.ok)
    IN [k \in 1..Len(found) |-> [term |-> found[k].term, definition |-> found[k].definition]]

\* random.sample(s, k): k elements of s at distinct positions, in any order;
\* random.shuffle(s) gives one of Samples(s, Len(s))
Samples(s, k) ==
    {[j \in 1..k |-> s[f[j]]] :
        f \in {g \in [1..k -> 1..Len(s)] : \A a, b \in 1..k : g[a] = g[b] => a = b}}

\* The notes hold at most GmMaxLines of six lines, or five concepts, or one
\* term with two definitions
GmInit ==
    /\ pc = "generate_mcqs"
    /\ frame = <<"generate_mcqs">>
    /\ \/ /\ notes_text \in
                LET lines == <<<<"O", "s", "m", "o", "s", "i", "s", ":", " ", "w", "a", "t", "e", "r", " ",
                                 "m", "o", "v", "e", "s">>,
                          <<"*", "*", "C", "e", "l", "l", "*", "*", ":", " ", "u", "n", "i", "t", " ", "o",
                            "f", " ", "l", "i", "f", "e">>,
                          <<"-", " ", "A", "T", "P", " ", ":", " ", "e", "n", "e", "r", "g", "y">>,
                          <<"t", "h", "e", "r", "e", " ", "a", "r", "e", " ", "n", "o", " ", "c", "o", "n",
                            "c", "e", "p", "t", "s", " ", "o", "n", " ", "t", "h", "i", "s", " ", "l", "i",
                              "n", "e">>,
                          <<"D", "i", "f", "f", "u", "s", "i", "o", "n", ":", " ", "w", "a", "t", "e", "r",
                            " ", "m", "o", "v", "e", "s">>,
                          <<"T", ":", "d">>>>
                IN {JoinWith([k \in DOMAIN f |-> lines[f[k]]], <<"\n">>) :
                        f \in UNION {[1..n -> 1..Len(lines)] : n \in 0..GmMaxLines}}
          /\ num_questions = 10
          /\ use_gemini \in BOOLEAN
       \/ /\ notes_text \in
                {<<"A", "1", ":", " ", "d", "1", "\n", "A", "2", ":", " ", "d", "2", "\n", "A",
                   "3", ":", " ", "d", "3", "\n", "A", "4", ":", " ", "d", "4", "\n", "A", "5",
                     ":", " ", "d", "5">>,
                 <<"C", "e", "l", "l", ":", " ", "u", "n", "i", "t", " ", "o", "f", " ", "l", "i",
                   "f", "e", "\n", "C", "e", "l", "l", ":", " ", "a", " ", "s", "m", "a", "l", "l",
                     " ", "r", "o", "o", "m">>}
          /\ num_questions = 1
          /\ use_gemini = FALSE
    /\ concepts = <<>>
    /\ mcqs = <<>>
    /\ mcqs_json = Absent
    /\ flashcards_json = Absent
    /\ chunks = <<>>
    /\ ci = 0
    /\ all_flashcards = <<>>
    /\ discovered_files = <<>>
    /\ user_input = <<>>
    /\ file = 0
    /\ files_processed = <<>>
    /\ all_success = TRUE
    /\ proc = NoRun
    /\ i = 0
    /\ result = NoResult
    /\ ScanIdle
    /\ FlashIdle
    /\ McqIdle
    /\ QuizIdle

\* Lines 245-251: the notes are read and parsed
GmStart ==
    /\ pc = "generate_mcqs"
    /\ concepts' = ParseNotesForConcepts(notes_text)
    /\ mcqs' = <<>>
    /\ pc' = IF use_gemini THEN "gemini_json" ELSE "local"
    /\ UNCHANGED <<i, result, scanVars, flashVars, mcqVars, proc, frame, chunks, ci,
                   all_flashcards, notes_text, use_gemini, num_questions, flashcards_json,
                   mcqs_json, discovered_files, user_input, file, files_processed,
                   all_success>>
    /\ UNCHANGED quizVars

\* data = gemini_json(...): the answer of call_gemini_cli, one of seven for
\* this prompt, parsed by json.loads, or the answer itself when json.loads
\* refuses it (utils.py, lines 242-249)
GmGeminiJson ==
    /\ pc = "gemini_json"
    /\ \E run \in Subprocess(
            {<<"[", "{", "\"", "q", "u", "e", "s", "t", "i", "o", "n", "\"", ":", "\"", "Q", "\"", ",",
               "\"", "o", "p", "t", "i", "o", "n", "s", "\"", ":", "[", "\"", "a", "\"", ",", "\"",
                 "b", "\"", "]", ",", "\"", "a", "n", "s", "w", "e", "r", "_", "i", "n", "d", "e", "x",
                   "\"", ":", "1", "}", "]">>,
             <<"[", "{", "\"", "q", "u", "e", "s", "t", "i", "o", "n", "\"", ":", "\"", "Q", "\"", ",",
               "\"", "o", "p", "t", "i", "o", "n", "s", "\"", ":", "[", "\"", "a", "\"", ",", "\"",
                 "b", "\"", ",", "\"", "c", "\"", ",", "\"", "d", "\"", ",", "\"", "e", "\"", "]", ",",
                   "\"", "a", "n", "s", "w", "e", "r", "_", "i", "n", "d", "e", "x", "\"", ":", "4",
                     ",", "\"", "e", "x", "p", "l", "a", "n", "a", "t", "i", "o", "n", "\"", ":", "\"",
                       "e", "\"", "}", ",", "7", "]">>,
             <<"H", "e", "r", "e", " ", "a", "r", "e", " ", "y", "o", "u", "r", " ", "q", "u", "e",
               "s", "t", "i", "o", "n", "s", ":", "\n", "[", "{", "\"", "q", "u", "e", "s", "t", "i",
                 "o", "n", "\"", ":", "\"", "Q", "\"", ",", "\"", "o", "p", "t", "i", "o", "n", "s",
                   "\"", ":", "[", "\"", "a", "\"", ",", "\"", "b", "\"", "]", ",", "\"", "a", "n",
                     "s", "w", "e", "r", "_", "i", "n", "d", "e", "x", "\"", ":", "1", "}", "]">>,
             <<Backtick, Backtick, Backtick, "j", "s", "o", "n", "\n", "[", "{", "\"", "q", "u", "e",
               "s", "t", "i", "o", "n", "\"", ":", "\"", "Q", "\"", ",", "\"", "o", "p", "t", "i", "o",
                 "n", "s", "\"", ":", "[", "\"", "a", "\"", ",", "\"", "b", "\"", "]", ",", "\"", "a",
                   "n", "s", "w", "e", "r", "_", "i", "n", "d", "e", "x", "\"", ":", "1", "}", "]",
                     "\n", Backtick, Backtick, Backtick>>,
             <<"n", "o", " ", "j", "s", "o", "n", " ", "h", "e", "r", "e">>,
             <<"[", "]">>,
             <<"{", "\"", "o", "u", "t", "p", "u", "t", "\"", ":", "[", "{", "\"", "q", "u", "e", "s",
               "t", "i", "o", "n", "\"", ":", "\"", "Q", "\"", ",", "\"", "o", "p", "t", "i", "o", "n",
                 "s", "\"", ":", "[", "\"", "a", "\"", ",", "\"", "b", "\"", "]", ",", "\"", "a", "n",
                   "s", "w", "e", "r", "_", "i", "n", "d", "e", "x", "\"", ":", "1", "}", "]", "}">>}) :
            /\ proc' = run
            /\ response' = CallGeminiCli(run)
    /\ data' = IF JsonLoads(response').ok THEN JsonLoads(response').val ELSE JStr(response')
    /\ pc' = "unwrap"
    /\ UNCHANGED <<i, result, scanVars, content, flashcards, valid_flashcards,
                   unique_flashcards, filtered, hostVars, user_input>>
    /\ UNCHANGED quizVars

\* Lines 252-261: what build_mcqs_with_gemini returned is kept, an exception
\* it raised is caught and leaves mcqs empty
GmBuilt ==
    /\ pc = "done"
    /\ frame = <<"generate_mcqs">>
    /\ mcqs' = IF result.kind = "value" THEN result.val.v ELSE <<>>
    /\ pc' = IF mcqs' = <<>> THEN "local" ELSE "write"
    /\ UNCHANGED <<i, result, scanVars, flashVars, mcqVars, proc, frame, chunks, ci,
                   all_flashcards, notes_text, concepts, use_gemini, num_questions,
                   flashcards_json, mcqs_json, discovered_files, user_input, file,
                   files_processed, all_success>>
    /\ UNCHANGED quizVars

\* build_mcqs_locally, lines 157-163: no concepts give no MCQ; else the
\* concepts are shuffled in place
GmLocal ==
    /\ pc = "local"
    /\ IF concepts = <<>>
       THEN /\ pc' = "write"
            /\ UNCHANGED <<i, concepts>>
       ELSE /\ concepts' \in Samples(concepts, Len(concepts))
            /\ i' = 1
            /\ pc' = "local_loop"
    /\ mcqs' = <<>>
    /\ UNCHANGED <<result, scanVars, flashVars, mcqVars, proc, frame, chunks, ci,
                   all_flashcards, notes_text, use_gemini, num_questions, flashcards_json,
                   mcqs_json, discovered_files, user_input, file, files_processed,
                   all_success>>
    /\ UNCHANGED quizVars

\* One turn of for c in concepts[: num_questions] (lines 164-176), or
\* return mcqs (line 177)
GmLocalItem ==
    /\ pc = "local_loop"
    /\ IF i <= Len(concepts) /\ i <= num_questions
       THEN /\ LET c == concepts[i]
                   pool_defs == [k \in 1..Len(concepts) |-> concepts[k].definition]
                   distractors == SelectSeq(pool_defs, LAMBDA d : d # c.definition)
                   k == IF Len(distractors) < 3 THEN Len(distractors) ELSE 3
                   LocalMcq(options) ==
                       JObj(<<
                         Member(K_question,
                                JStr(<<"W", "h", "a", "t", " ", "b", "e", "s", "t", " ", "d",
                                       "e", "s", "c", "r", "i", "b", "e", "s", ":", " ">>
                                     \o c.term \o <<"?">>)),
                         Member(K_options,
                                JArr([n \in 1..Len(options) |-> JStr(options[n])])),
                         Member(K_answer_index,
                                JNum(Least({n \in 1..Len(options) :
                                                options[n] = c.definition}) - 1)),
                         Member(K_explanation,
                                JStr(<<"'">> \o c.term
                                     \o <<"'", " ", "m", "e", "a", "n", "s", ":", " ">>
                                     \o c.definition))>>)
               IN \E sample \in Samples(distractors, k) :
                    \E options \in Samples(<<c.definition>> \o sample, k + 1) :
                        mcqs' = Append(mcqs, LocalMcq(options))
            /\ i' = i + 1
            /\ UNCHANGED pc
       ELSE /\ pc' = "write"
            /\ UNCHANGED <<i, mcqs>>
    /\ UNCHANGED <<result, scanVars, flashVars, mcqVars, proc, frame, chunks, ci,
                   all_flashcards, notes_text, concepts, use_gemini, num_questions,
                   flashcards_json, mcqs_json, discovered_files, user_input, file,
                   files_processed, all_success>>
    /\ UNCHANGED quizVars

\* out_path.write_text(json.dumps({"mcqs": mcqs}, indent=2)); return out_path
GmWrite ==
    /\ pc = "write"
    /\ mcqs_json' = JObj(<<Member(<<"m", "c", "q", "s">>, JArr(mcqs))>>)
    /\ result' = Returned(JStr(<<"d", "a", "t", "a", "/", "m", "c", "q", "s", ".", "j", "s",
                                 "o", "n">>))
    /\ frame' = <<>>
    /\ pc' = "returned"
    /\ UNCHANGED <<i, scanVars, flashVars, mcqVars, proc, chunks, ci, all_flashcards,
                   notes_text, concepts, mcqs, use_gemini, num_questions, flashcards_json,
                   discovered_files, user_input, file, files_processed, all_success>>
    /\ UNCHANGED quizVars

GmNext ==
    \/ GmStart \/ GmGeminiJson \/ McqUnwrap \/ McqValidate \/ McqFinish
    \/ GmBuilt \/ GmLocal \/ GmLocalItem \/ GmWrite

SpecGenerateMcqs == GmInit /\ [][GmNext]_vars

\* C15, for generate_mcqs: when the notes are empty or shorter than 50
\* characters the Gemini CLI is never run and the call reports a failure.
C15_ShortNotesNeverGenerate ==
    Len(notes_text) < 50 =>
        /\ proc = NoRun
        /\ pc = "returned" => result.kind # "value"

\* C16: every MCQ of either producer (filtered is build_mcqs_with_gemini's
\* list, mcqs holds what build_mcqs_locally builds) has between 2 and 4
\* options, so that build_mcqs_locally makes no MCQ for a term without
\* another distinct definition.
C16_TwoToFourOptions ==
    /\ \A k \in 1..Len(filtered) : Len(Item(filtered[k], K_options).v) \in 2..4
    /\ \A k \in 1..Len(mcqs) : Len(Item(mcqs[k], K_options).v) \in 2..4

\* The external call failed: no process, a timeout, an exception or a return
\* code other than 0
ExternalCallFailed == proc.kind \notin {"none", "exit"} \/ proc.returncode # 0

\* C17, for MCQs: with the external call failing generate_mcqs never writes
\* an empty MCQ list, whatever the notes. (The flashcard half is
\* create_fallback_flashcards, the generator of SpecFallback.)
C17_FallbackNeverEmpty ==
    pc = "returned" /\ ExternalCallFailed =>
        /\ mcqs_json.t = "obj"
        /\ Item(mcqs_json, <<"m", "c", "q", "s">>).v # <<>>

\* C18: when the answer is a valid MCQ array surrounded by prose or by code
\* fences, generate_mcqs stores the validated records of that array and not
\* the locally built MCQs.
C18_SurroundedArrayStored ==
    pc = "returned" /\ proc.kind = "exit" /\ response # <<>> /\ ~JsonLoads(response).ok =>
        LET span == SafeLoadJson(response)
            accepted == SelectSeq(span.val.v, McqAccepts)
        IN span.kind = "value" /\ span.val.t = "arr" /\ accepted # <<>> =>
            mcqs_json = JObj(<<Member(<<"m", "c", "q", "s">>,
                                      JArr([k \in 1..Len(accepted) |-> McqRecord(accepted[k])]))>>)

(***************************************************************************)
(* main.StudyAssistant.handle_flashcard_generation, with                   *)
(* flashcards.generate_flashcards_from_file and                            *)
(* flashcards.extract_concepts_from_long_content                           *)
(***************************************************************************)
\* The frames the interpreter grants to the calls of these functions
\* (CPython: sys.getrecursionlimit(), 1000 unless the program changes it)
MaxDepth == 6

\* chunks of lines 101-119: content is split at the headings and the
\* sections are gathered into chunks of about chunk_size characters
Chunks(s) ==
    LET chunk_size == 6000
        \* the end of the match of \n#{1,3}\s+ that starts at p, 0 without one
        SeparatorEnd(p) ==
            IF s[p] # "\n" THEN 0
            ELSE LET hs == {h \in 1..3 : /\ p + h + 1 <= Len(s)
                                         /\ \A j \in 1..h : s[p + j] = "#"
                                         /\ s[p + h + 1] \in Whitespace}
                 IN IF hs = {} THEN 0
                    ELSE SkipWhile(s, p + Least(hs) + 1, Whitespace) - 1
        separators == {p \in 1..Len(s) : SeparatorEnd(p) # 0}
        \* sections = re.split(r'\n#{1,3}\s+', content), from the index from on
        RECURSIVE SplitSections(_)
        SplitSections(from) ==
            LET ps == {p \in separators : p >= from}
            IN IF ps = {} THEN <<Slice(s, from, Len(s))>>
               ELSE <<Slice(s, from, Least(ps) - 1)>>
                        \o SplitSections(SeparatorEnd(Least(ps)) + 1)
        sections == SplitSections(1)
        \* the loop of lines 107-115 from sections[k] on
        RECURSIVE ChunksFrom(_, _)
        ChunksFrom(k, current_chunk) ==
            IF k > Len(sections)
            THEN IF current_chunk # <<>> THEN <<current_chunk>> ELSE <<>>
            ELSE LET section == sections[k]
                 IN IF Len(current_chunk) + Len(section) > chunk_size /\ current_chunk # <<>>
                    THEN <<current_chunk>> \o ChunksFrom(k + 1, section)
                    ELSE ChunksFrom(k + 1, IF current_chunk # <<>>
                                            THEN current_chunk \o <<"\n">> \o section
                                            ELSE section)
    IN ChunksFrom(1, <<>>)

\* The loop of lines 125-132: the first record of each question key is kept
RECURSIVE UniqueFrom(_, _)
UniqueFrom(cards, seen_questions) ==
    IF cards = <<>> THEN <<>>
    ELSE LET question_key == NormalizedQuestion(Head(cards))
         IN IF question_key \notin seen_questions
            THEN <<Head(cards)>> \o UniqueFrom(Tail(cards), seen_questions \cup {question_key})
            ELSE UniqueFrom(Tail(cards), seen_questions)

\* What a function keeps while the function it called runs: where it goes
\* on (pc) and its local variables
Caller(goes_on) ==
    [pc |-> goes_on, content |-> content, chunks |-> chunks, ci |-> ci,
     all_flashcards |-> all_flashcards]

\* The running function returns to its caller, which goes on; an exception
\* leaves the caller as well, since none of them calls inside a try block
Return ==
    /\ pc = "done"
    /\ frame # <<>>
    /\ LET caller == frame[Len(frame)]
       IN /\ frame' = SubSeq(frame, 1, Len(frame) - 1)
          /\ pc' = IF result.kind = "value" THEN caller.pc
                   ELSE IF frame' = <<>> THEN "raised" ELSE "done"
          /\ content' = caller.content
          /\ chunks' = caller.chunks
          /\ ci' = caller.ci
          /\ all_flashcards' = caller.all_flashcards
    /\ UNCHANGED <<i, result, response, flashcards, valid_flashcards, unique_flashcards, proc,
                   flashcards_json, file, files_processed, all_success, scanVars, mcqVars,
                   notes_text, concepts, mcqs, use_gemini, num_questions, mcqs_json,
                   discovered_files, user_input>>
    /\ UNCHANGED quizVars

\* handle_flashcard_generation up to its first call of
\* generate_flashcards_from_file (lines 346-408); file is the index of file
\* resp. chosen_file in discovered_files
HfgChoose ==
    /\ pc = "handle_flashcard_generation"
    /\ LET n == Len(discovered_files)
           file_choice == Strip(user_input)
           \* int(file_choice) for an optional sign and decimal digits; ok is
           \* FALSE where int raises ValueError
           signed == file_choice # <<>> /\ file_choice[1] \in {"+", "-"}
           ds == IF signed THEN Tail(file_choice) ELSE file_choice
           RECURSIVE DigitsValue(_)
           DigitsValue(len) ==
               IF len = 0 THEN 0
               ELSE 10 * DigitsValue(len - 1)
                        + (CHOOSE d \in 0..9 : ToStr(d) = <<ds[len]>>)
           number ==
               IF ds = <<>> \/ \E k \in 1..Len(ds) : ds[k] \notin Digits
               THEN [ok |-> FALSE, val |-> 0]
               ELSE [ok |-> TRUE,
                     val |-> IF signed /\ file_choice[1] = "-" THEN 0 - DigitsValue(Len(ds))
                             ELSE DigitsValue(Len(ds))]
           matching == {k \in 1..n : Contains(LowerStr(discovered_files[k].name),
                                              LowerStr(file_choice))}
           chosen_file ==
               IF n = 1 THEN 1
               ELSE IF number.ok
               THEN (IF 0 <= number.val - 1 /\ number.val - 1 < n THEN number.val ELSE 0)
               ELSE IF matching # {} THEN Least(matching) ELSE 1
       IN IF n = 0 \/ (n > 1 /\ LowerStr(file_choice) # <<"a", "l", "l">> /\ chosen_file = 0)
          THEN /\ result' = Returned(JNull)
               /\ pc' = "returned"
               /\ UNCHANGED <<frame, file, all_success>>
          ELSE IF n > 1 /\ LowerStr(file_choice) = <<"a", "l", "l">>
          THEN /\ all_success' = TRUE
               /\ file' = 1
               /\ frame' = <<Caller("all_result")>>
               /\ pc' = "generate_flashcards_from_file"
               /\ UNCHANGED result
          ELSE /\ file' = chosen_file
               /\ frame' = <<Caller("chosen_result")>>
               /\ pc' = "generate_flashcards_from_file"
               /\ UNCHANGED <<result, all_success>>
    /\ UNCHANGED <<i, flashVars, proc, chunks, ci, all_flashcards, flashcards_json,
                   files_processed, scanVars, mcqVars, notes_text, concepts, mcqs, use_gemini,
                   num_questions, mcqs_json, discovered_files, user_input>>
    /\ UNCHANGED quizVars

\* What generate_flashcards_from_file returned: in the loop of the choice
\* 'all' (lines 368-382) the next file follows, else (lines 408-414) the
\* handler is done
HfgResult ==
    /\ pc \in {"all_result", "chosen_result"}
    /\ files_processed' = IF Truthy(result.val)
                          THEN Append(files_processed, discovered_files[file].name)
                          ELSE files_processed
    /\ all_success' = IF pc = "all_result" /\ ~Truthy(result.val) THEN FALSE ELSE all_success
    /\ IF pc = "all_result" /\ file < Len(discovered_files)
       THEN /\ file' = file + 1
            /\ frame' = <<Caller("all_result")>>
            /\ pc' = "generate_flashcards_from_file"
            /\ UNCHANGED result
       ELSE /\ result' = Returned(JNull)
            /\ pc' = "returned"
            /\ UNCHANGED <<file, frame>>
    /\ UNCHANGED <<i, flashVars, proc, chunks, ci, all_flashcards, flashcards_json, scanVars,
                   mcqVars, notes_text, concepts, mcqs, use_gemini, num_questions, mcqs_json,
                   discovered_files, user_input>>
    /\ UNCHANGED quizVars

\* generate_flashcards_from_file, lines 215-233: a missing, empty or short
\* file gives False before anything is generated
GffRead ==
    /\ pc = "generate_flashcards_from_file"
    /\ LET notes == discovered_files[file].text
       IN IF notes = Absent \/ notes.v = <<>> \/ Len(notes.v) < 50
          THEN /\ result' = Returned(JBool(FALSE))
               /\ pc' = "done"
               /\ UNCHANGED <<content, frame>>
          ELSE /\ content' = notes.v
               /\ frame' = Append(frame, [Caller("flashcards") EXCEPT !.content = notes.v])
               /\ pc' = "extract_concepts_from_notes"
               /\ UNCHANGED result
    /\ UNCHANGED <<i, response, flashcards, valid_flashcards, unique_flashcards, proc, chunks,
                   ci, all_flashcards, flashcards_json, file, files_processed, all_success,
                   scanVars, mcqVars, notes_text, concepts, mcqs, use_gemini, num_questions,
                   mcqs_json, discovered_files, user_input>>
    /\ UNCHANGED quizVars

\* generate_flashcards_from_file, lines 235-292: the stored cards are read,
\* the cards with a new question are counted, and flashcards is saved; the
\* method get of a stored record that is no object, and the method lower of
\* a question that is no string, raise AttributeError
GffSave ==
    /\ pc = "flashcards"
    /\ LET existing_flashcards == IF flashcards_json.t = "arr" THEN flashcards_json.v ELSE <<>>
           existing_raises ==
               \E k \in 1..Len(existing_flashcards) :
                    \/ existing_flashcards[k].t # "obj"
                    \/ GetOr(existing_flashcards[k], K_question, JStr(<<>>)).t # "str"
           existing_questions ==
               {LowerStr(GetOr(existing_flashcards[k], K_question, JStr(<<>>)).v) :
                    k \in 1..Len(existing_flashcards)}
           new_flashcards ==
               SelectSeq(result.val.v,
                         LAMBDA card : LowerStr(Item(card, K_question).v)
                                            \notin existing_questions)
           \* The preview table of lines 264-270: an answer or a mnemonic that
           \* len() refuses (TypeError) or that the table cannot render (a list
           \* or an object of at most 40 members)
           shown == SubSeq(new_flashcards, 1,
                           IF Len(new_flashcards) < 3 THEN Len(new_flashcards) ELSE 3)
           Types(card) == {Item(card, K_answer).t, Item(card, K_mnemonic).t}
           bad == {k \in 1..Len(shown) : Types(shown[k]) # {"str"}}
           preview_raises ==
               IF bad = {} THEN "none"
               ELSE IF Types(shown[Least(bad)]) \cap {"null", "bool", "num"} # {}
               THEN "TypeError"
               ELSE "NotRenderableError"
       IN IF ~Truthy(result.val)
          THEN /\ result' = Returned(JBool(FALSE))
               /\ UNCHANGED <<flashcards, flashcards_json>>
          ELSE IF existing_raises
                  \/ \E k \in 1..Len(result.val.v) :
                        Item(result.val.v[k], K_question).t # "str"
          THEN /\ result' = Raised("AttributeError")
               /\ flashcards' = result.val.v
               /\ UNCHANGED flashcards_json
          ELSE /\ flashcards' = result.val.v
               /\ \/ /\ flashcards_json' = JArr(result.val.v)
                     /\ result' = IF preview_raises = "none" THEN Returned(JBool(TRUE))
                                  ELSE Raised(preview_raises)
                  \/ \* save_json caught an exception of the file system
                     /\ result' = Returned(JBool(FALSE))
                     /\ UNCHANGED flashcards_json
    /\ pc' = "done"
    /\ UNCHANGED <<i, content, response, valid_flashcards, unique_flashcards, proc, frame,
                   chunks, ci, all_flashcards, file, files_processed, all_success, scanVars,
                   mcqVars, notes_text, concepts, mcqs, use_gemini, num_questions, mcqs_json,
                   discovered_files, user_input>>
    /\ UNCHANGED quizVars

\* extract_concepts_from_notes, lines 13-16: content over 8000 characters
\* goes to extract_concepts_from_long_content; a call beyond the frames of
\* the interpreter raises RecursionError
EcnEnter ==
    /\ pc = "extract_concepts_from_notes"
    /\ IF Len(frame) >= MaxDepth
       THEN /\ result' = Raised("RecursionError")
            /\ pc' = "done"
            /\ UNCHANGED <<i, frame, response, flashcards, valid_flashcards>>
       ELSE IF Len(content) > 8000
       THEN /\ frame' = Append(frame, Caller("done"))
            /\ pc' = "extract_concepts_from_long_content"
            /\ UNCHANGED <<i, result, response, flashcards, valid_flashcards>>
       ELSE /\ response' = <<>>
            /\ flashcards' = <<>>
            /\ valid_flashcards' = <<>>
            /\ i' = 0
            /\ pc' = "call"
            /\ UNCHANGED <<result, frame>>
    /\ UNCHANGED <<content, unique_flashcards, proc, chunks, ci, all_flashcards,
                   flashcards_json, file, files_processed, all_success, scanVars, mcqVars,
                   notes_text, concepts, mcqs, use_gemini, num_questions, mcqs_json,
                   discovered_files, user_input>>
    /\ UNCHANGED quizVars

\* extract_concepts_from_long_content, lines 101-119: the chunks
EclChunks ==
    /\ pc = "extract_concepts_from_long_content"
    /\ chunks' = Chunks(content)
    /\ ci' = 1
    /\ all_flashcards' = <<>>
    /\ pc' = "chunk_loop"
    /\ UNCHANGED <<i, result, flashVars, proc, frame, flashcards_json, file, files_processed,
                   all_success, scanVars, mcqVars, notes_text, concepts, mcqs, use_gemini,
                   num_questions, mcqs_json, discovered_files, user_input>>
    /\ UNCHANGED quizVars

\* chunk_cards = extract_concepts_from_notes(chunk), line 122
EclChunk ==
    /\ pc = "chunk_loop"
    /\ ci <= Len(chunks)
    /\ frame' = Append(frame, Caller("chunk_cards"))
    /\ content' = chunks[ci]
    /\ pc' = "extract_concepts_from_notes"
    /\ UNCHANGED <<i, result, response, flashcards, valid_flashcards, unique_flashcards, proc,
                   chunks, ci, all_flashcards, flashcards_json, file, files_processed,
                   all_success, scanVars, mcqVars, notes_text, concepts, mcqs, use_gemini,
                   num_questions, mcqs_json, discovered_files, user_input>>
    /\ UNCHANGED quizVars

\* all_flashcards.extend(chunk_cards), line 123; TypeError when chunk_cards
\* is None
EclExtend ==
    /\ pc = "chunk_cards"
    /\ IF result.val.t = "arr"
       THEN /\ all_flashcards' = all_flashcards \o result.val.v
            /\ ci' = ci + 1
            /\ pc' = "chunk_loop"
            /\ UNCHANGED result
       ELSE /\ result' = Raised("TypeError")
            /\ pc' = "done"
            /\ UNCHANGED <<ci, all_flashcards>>
    /\ UNCHANGED <<i, flashVars, proc, frame, chunks, flashcards_json, file, files_processed,
                   all_success, scanVars, mcqVars, notes_text, concepts, mcqs, use_gemini,
                   num_questions, mcqs_json, discovered_files, user_input>>
    /\ UNCHANGED quizVars

\* Lines 125-135: the duplicates are removed and the rest is returned;
\* card['question'].lower() raises AttributeError for a question that is no
\* string
EclUnique ==
    /\ pc = "chunk_loop"
    /\ ci > Len(chunks)
    /\ IF \E k \in 1..Len(all_flashcards) : Item(all_flashcards[k], K_question).t # "str"
       THEN /\ result' = Raised("AttributeError")
            /\ UNCHANGED unique_flashcards
       ELSE /\ unique_flashcards' = UniqueFrom(all_flashcards, {})
            /\ result' = Returned(JArr(unique_flashcards'))
    /\ pc' = "done"
    /\ UNCHANGED <<i, content, response, flashcards, valid_flashcards, proc, frame, chunks, ci,
                   all_flashcards, flashcards_json, file, files_processed, all_success,
                   scanVars, mcqVars, notes_text, concepts, mcqs, use_gemini, num_questions,
                   mcqs_json, discovered_files, user_input>>
    /\ UNCHANGED quizVars

\* A directory of up to GfMaxFiles files a.md, b.txt, .. whose texts are: none
\* (the file is gone), empty, short, or one of two of ordinary length; or of
\* one file of more than 8000 characters: one section, two sections of 4000
\* characters and more, three of 3000 characters. The user answers to "Which
\* file would you like me to process?", and data/flashcards.json is missing
\* or holds one stored card, no list, or a list of something else
GfInit ==
    /\ pc = "handle_flashcard_generation"
    /\ LET short == {Absent, JStr(<<>>), JStr(<<"T", ":", "d">>),
                     JStr(Concat(<<FbSegments[1], FbSegments[2], FbSegments[3],
                                   FbSegments[4], FbSegments[6]>>)),
                     JStr(Concat(<<FbSegments[6], FbSegments[4], FbSegments[5],
                                   FbSegments[7], FbSegments[8]>>))}
           long == {JStr([k \in 1..8001 |-> "a"]),
                    JStr(Concat(<<FbSegments[1], FbSegments[2], FbSegments[3],
                                  FbSegments[4]>>)
                         \o [k \in 1..4000 |-> "x"] \o <<"\n", "#", "#", " ">>
                         \o Concat(<<FbSegments[5], FbSegments[7], FbSegments[8],
                                     FbSegments[4]>>)
                         \o [k \in 1..4000 |-> "y"]),
                    JStr([k \in 1..3000 |-> "z"] \o <<"\n", "#", " ">>
                         \o [k \in 1..3000 |-> "z"]
                         \o <<"\n", "#", "#", "#", "\t", "\n">>
                         \o [k \in 1..3000 |-> "z"])}
           names == <<<<"a", ".", "m", "d">>, <<"b", ".", "t", "x", "t">>,
                      <<"c", ".", "m", "d">>>>
       IN discovered_files \in
            {[k \in 1..Len(texts) |-> [name |-> names[k], text |-> texts[k]]] :
                texts \in {<<t>> : t \in long}
                          \cup UNION {[1..n -> short] : n \in 0..GfMaxFiles}}
    /\ user_input \in IF Len(discovered_files) > 1
                      THEN {<<"A", "l", "l">>, <<"2">>, <<"0">>, <<"3">>, <<"B">>, <<"x">>}
                      ELSE {<<>>}
    /\ flashcards_json \in
            {Absent,
             JArr(<<Flashcard(<<"O", "l", "d", "?">>, <<"o", "l", "d">>, <<"m">>)>>),
             JObj(<<Member(K_question, JStr(<<"O", "l", "d", "?">>))>>),
             JArr(<<JNum(7)>>)}
    /\ frame = <<>>
    /\ chunks = <<>>
    /\ ci = 0
    /\ all_flashcards = <<>>
    /\ file = 0
    /\ files_processed = <<>>
    /\ all_success = TRUE
    /\ notes_text = <<>>
    /\ concepts = <<>>
    /\ mcqs = <<>>
    /\ use_gemini = TRUE
    /\ num_questions = 10
    /\ mcqs_json = Absent
    /\ proc = NoRun
    /\ i = 0
    /\ result = NoResult
    /\ ScanIdle
    /\ FlashIdle
    /\ McqIdle
    /\ QuizIdle

\* The call of the Gemini CLI, with what it may print for this prompt
GfCall ==
    FlCallOn(
        {<<"[", "{", "\"", "q", "u", "e", "s", "t", "i", "o", "n", "\"", ":",
           "\"", "Q", "1", "\"", ",", "\"", "a", "n", "s", "w", "e", "r", "\"",
           ":", "\"", "A", "1", "\"", "}", "]">>,
         <<"[", "{", "\"", "q", "u", "e", "s", "t", "i", "o", "n", "\"", ":",
           "\"", "o", "l", "d", "?", "\"", ",", "\"", "a", "n", "s", "w", "e",
           "r", "\"", ":", "\"", "A", "2", "\"", ",", "\"", "m", "n", "e", "m",
           "o", "n", "i", "c", "\"", ":", "\"", "m", "\"", "}", "]">>,
         <<"n", "o", " ", "j", "s", "o", "n", " ", "h", "e", "r", "e">>,
         <<"[", "{", "\"", "q", "u", "e", "s", "t", "i", "o", "n", "\"", ":",
           "7", ",", "\"", "a", "n", "s", "w", "e", "r", "\"", ":", "\"", "A",
           "\"", ",", "\"", "m", "n", "e", "m", "o", "n", "i", "c", "\"", ":",
           "\"", "m", "\"", "}", "]">>,
         <<"[", "{", "\"", "q", "u", "e", "s", "t", "i", "o", "n", "\"", ":",
           "\"", "Q", "3", "\"", ",", "\"", "a", "n", "s", "w", "e", "r", "\"",
           ":", "n", "u", "l", "l", ",", "\"", "m", "n", "e", "m", "o", "n", "i",
           "c", "\"", ":", "\"", "m", "\"", "}", "]">>})

GfNext ==
    \/ HfgChoose \/ HfgResult \/ GffRead \/ GffSave
    \/ EcnEnter \/ GfCall \/ FlNoResponse \/ FlNoMatch \/ FlParse \/ FlValidate \/ FlPad
    \/ EclChunks \/ EclChunk \/ EclExtend \/ EclUnique \/ Return

SpecGenerateFlashcards == GfInit /\ [][GfNext]_vars

\* C13, for flashcards: when the Gemini CLI is missing, fails or times out
\* (so that no run of it gave an answer), the call of
\* extract_concepts_from_notes that generate_flashcards_from_file makes ends
\* with the records of the local fallback, for content of at most 8000
\* characters those of create_fallback_flashcards(content), and never with
\* an exception. (For MCQs generate_mcqs catches every exception of
\* build_mcqs_with_gemini, lines 250-258 of mcq.py.)
C13_NoProcessGivesFallback ==
    /\ pc = "done" /\ Len(frame) = 2 /\ frame[2].pc = "flashcards"
    /\ proc = NoRun \/ (Len(content) <= 8000 /\ ExternalCallFailed)
    => /\ result.kind = "value"
       /\ result.val.t = "arr"
       /\ result.val.v # <<>>
       /\ Len(content) <= 8000 => result = Fallback(content)

\* C20: a generate_flashcards_from_file that returns True leaves in
\* data/flashcards.json every card stored before, followed by the generated
\* cards whose question was not stored (case-insensitively).
C20_StoredCardsKept ==
    [][pc = "flashcards" /\ pc' = "done" /\ result' = Returned(JBool(TRUE)) =>
            LET existing_flashcards ==
                    IF flashcards_json.t = "arr" THEN flashcards_json.v ELSE <<>>
                existing_questions ==
                    {LowerStr(GetOr(existing_flashcards[k], K_question, JStr(<<>>)).v) :
                        k \in 1..Len(existing_flashcards)}
                new_flashcards ==
                    SelectSeq(result.val.v,
                              LAMBDA card : LowerStr(Item(card, K_question).v)
                                                \notin existing_questions)
            IN flashcards_json' = JArr(existing_flashcards \o new_flashcards)]_vars

\* C25 (as claimed): in every MCQ built by build_mcqs_locally, whatever the
\* shuffles and the sample give, options[answer_index] is the definition of
\* the question's own term, that definition is among the options exactly
\* once, and every other option is the definition of another extracted term.
C25_LocalOptionsFromOtherTerms ==
    pc = "local_loop" =>
        \A k \in 1..Len(mcqs) :
            LET c == concepts[k]
                options == Item(mcqs[k], K_options).v
                answer_index == Item(mcqs[k], K_answer_index).v[1]
            IN /\ answer_index + 1 \in 1..Len(options)
               /\ options[answer_index + 1] = JStr(c.definition)
               /\ Cardinality({n \in 1..Len(options) : options[n] = JStr(c.definition)}) = 1
               /\ \A n \in 1..Len(options) :
                     n # answer_index + 1 =>
                         \E j \in 1..Len(concepts) :
                             /\ concepts[j].term # c.term
                             /\ options[n] = JStr(concepts[j].definition)

\* C27 (as claimed): extract_concepts_from_notes ends for every text: the
\* chunks of a text of more than 8000 characters are bounded in size, with
\* or without headings and whatever the size of a section, so that no chunk
\* is sent back to extract_concepts_from_long_content and the calls of the
\* two functions never exhaust the interpreter's stack.
C27_LongContentTerminates ==
    /\ \A k \in 1..Len(chunks) : Len(chunks[k]) <= 8000
    /\ result.kind # "RecursionError"

(***************************************************************************)
(* The two deduplication loops: flashcards.create_fallback_flashcards and  *)
(* flashcards.extract_concepts_from_long_content                           *)
(***************************************************************************)
SpecDeduplicate == (FbInit \/ GfInit) /\ [][FbNext \/ GfNext]_vars

\* re.sub(r'[^\w]', '', card['question'].lower()), the key of the fallback's loop
FallbackKey(card) ==
    SelectSeq(LowerStr(Item(card, K_question).v), LAMBDA c : c \in WordChars)

LongAnswer(card) == Len(Item(card, K_answer).v) > 20

AnyCard(card) == TRUE

\* output is the subsequence of input, in input order, of the records that
\* Admits takes and that are the first of these with their Key
FirstOfEachKey(input, output, Key(_), Admits(_)) ==
    LET first == {k \in 1..Len(input) :
                     /\ Admits(input[k])
                     /\ \A j \in 1..(k - 1) :
                           Admits(input[j]) => Key(input[j]) # Key(input[k])}
        Nth(n) == CHOOSE k \in first : Cardinality({j \in first : j <= k}) = n
    IN /\ Len(output) = Cardinality(first)
       /\ \A n \in 1..Len(output) : output[n] = input[Nth(n)]

QuizMaxCards == 2
\* The quizzes that may store a session in data/progress.json
QuizMaxSessions == 2

\* simple_answer_check: the answer in lower case is the correct answer, or
\* holds six tenths of its words of more than three characters
SimpleAnswerCheck(typed, correct_answer) ==
    LET user_lower == Strip(LowerStr(typed))
        correct_lower == LowerStr(correct_answer)
        \* correct_lower.split(): the longest runs without whitespace
        correct_words ==
            {Slice(correct_lower, p[1], p[2]) :
                p \in {q \in (1..Len(correct_lower)) \X (1..Len(correct_lower)) :
                        /\ q[1] <= q[2]
                        /\ \A k \in q[1]..q[2] : correct_lower[k] \notin Whitespace
                        /\ q[1] = 1 \/ correct_lower[q[1] - 1] \in Whitespace
                        /\ q[2] = Len(correct_lower)
                           \/ correct_lower[q[2] + 1] \in Whitespace}}
        important_words == {w \in correct_words : Len(w) > 3}
        matching_words == Cardinality({w \in important_words : Contains(user_lower, w)})
    IN \/ user_lower = correct_lower
       \/ /\ important_words # {}
          /\ 10 * matching_words >= 6 * Cardinality(important_words)

\* enhanced_answer_check: the share of the correct answer's words, the stop
\* words apart, that the answer holds: seven tenths make it correct, four
\* tenths partial
EnhancedAnswerCheck(typed, correct_answer) ==
    LET user_lower == Strip(LowerStr(typed))
        correct_lower == LowerStr(correct_answer)
        stop_words == {<<"t", "h", "e">>, <<"a">>, <<"a", "n">>, <<"i", "s">>, <<"a", "r",
                "e">>, <<"w", "a", "s">>, <<"w", "e", "r", "e">>, <<"o", "f">>, <<"i",
                "n">>, <<"t", "o">>, <<"f", "o", "r">>}
        \* t.split(): the longest runs without whitespace
        Split(t) ==
            {Slice(t, p[1], p[2]) :
                p \in {q \in (1..Len(t)) \X (1..Len(t)) :
                        /\ q[1] <= q[2]
                        /\ \A k \in q[1]..q[2] : t[k] \notin Whitespace
                        /\ q[1] = 1 \/ t[q[1] - 1] \in Whitespace
                        /\ q[2] = Len(t) \/ t[q[2] + 1] \in Whitespace}}
        user_words == Split(user_lower) \ stop_words
        correct_words == Split(correct_lower) \ stop_words
        common == Cardinality(user_words \cap correct_words)
    IN IF correct_words = {}
       THEN [is_correct |-> user_lower = correct_lower,
             match_quality |-> IF user_lower = correct_lower THEN <<"e", "x", "a", "c",
                     "t">> ELSE <<"n", "o", "n", "e">>]
       ELSE IF 10 * common >= 7 * Cardinality(correct_words)
       THEN [is_correct |-> TRUE, match_quality |-> <<"s", "e", "m", "a", "n", "t", "i", "c">>]
       ELSE IF 10 * common >= 4 * Cardinality(correct_words)
       THEN [is_correct |-> FALSE, match_quality |-> <<"p", "a", "r", "t", "i", "a", "l">>]
       ELSE [is_correct |-> FALSE, match_quality |-> <<"n", "o", "n", "e">>]

\* evaluate_answer_with_gemini, reply being what call_gemini_cli returned for
\* the prompt of lines 55-70 (no call is made for an answer under three
\* characters)
EvaluateAnswerWithGemini(typed, correct_answer, reply) ==
    LET upper == [k \in 1..Len(reply) |->
                    IF \E n \in 1..26 : LowerSeq[n] = reply[k]
                    THEN UpperSeq[CHOOSE n \in 1..26 : LowerSeq[n] = reply[k]]
                    ELSE reply[k]]
        says_correct == Contains(upper, <<"C", "O", "R", "R", "E", "C", "T">>)
        says_partial == Contains(upper, <<"P", "A", "R", "T", "I", "A", "L">>)
        \* response.split("|")[1].strip()
        bar == Least({k \in 1..Len(reply) : reply[k] = "|"})
        custom == Strip(Slice(reply, bar + 1, SkipUntil(reply, bar + 1, {"|"}) - 1))
        enhanced == EnhancedAnswerCheck(typed, correct_answer)
    IN IF Len(Strip(typed)) < 3
       THEN LET is_correct == SimpleAnswerCheck(typed, correct_answer)
            IN [is_correct |-> is_correct,
                feedback |-> IF is_correct THEN <<"C", "o", "r", "r", "e", "c", "t", "!">>
                             ELSE <<"T", "r", "y", " ", "t", "o", " ", "p", "r", "o", "v",
                                     "i", "d", "e", " ", "a", " ", "m", "o", "r", "e", " ",
                                     "c", "o", "m", "p", "l", "e", "t", "e", " ", "a", "n",
                                     "s", "w", "e", "r", "!">>,
                score |-> IF is_correct THEN 100 ELSE 0,
                match_quality |-> IF is_correct THEN <<"e", "x", "a", "c", "t">> ELSE <<"n",
                        "o", "n", "e">>]
       ELSE IF reply # <<>>
       THEN LET is_correct == says_correct /\ ~says_partial
            IN [is_correct |-> is_correct,
                feedback |->
                    IF Contains(reply, <<"|">>) THEN custom
                    ELSE IF is_correct
                    THEN <<"E", "x", "c", "e", "l", "l", "e", "n", "t", "!", " ", "Y", "o",
                            "u", " ", "u", "n", "d", "e", "r", "s", "t", "o", "o", "d", " ",
                            "t", "h", "e", " ", "c", "o", "n", "c", "e", "p", "t", " ", "p",
                            "e", "r", "f", "e", "c", "t", "l", "y", "!">>
                    ELSE IF says_partial
                    THEN <<"G", "o", "o", "d", " ", "e", "f", "f", "o", "r", "t", "!", " ",
                            "Y", "o", "u", "'", "r", "e", " ", "o", "n", " ", "t", "h", "e",
                            " ", "r", "i", "g", "h", "t", " ", "t", "r", "a", "c", "k", ".",
                            " ", "C", "o", "m", "p", "l", "e", "t", "e", " ", "a", "n", "s",
                            "w", "e", "r", ":", " ">>
                         \o correct_answer
                    ELSE <<"N", "o", "t", " ", "q", "u", "i", "t", "e", ",", " ", "b", "u",
                            "t", " ", "k", "e", "e", "p", " ", "l", "e", "a", "r", "n", "i",
                            "n", "g", "!", " ", "T", "h", "e", " ", "a", "n", "s", "w", "e",
                            "r", " ", "i", "s", ":", " ">>
                         \o correct_answer,
                score |-> IF is_correct THEN 100 ELSE IF says_partial THEN 50 ELSE 0,
                match_quality |-> IF is_correct THEN <<"s", "e", "m", "a", "n", "t", "i", "c">>
                                  ELSE IF says_partial THEN <<"p", "a", "r", "t", "i", "a",
                                          "l">>
                                  ELSE <<"i", "n", "c", "o", "r", "r", "e", "c", "t">>]
       ELSE [is_correct |-> enhanced.is_correct,
             feedback |->
                 IF enhanced.is_correct THEN <<"P", "e", "r", "f", "e", "c", "t", "!", " ",
                         "Y", "o", "u", " ", "g", "o", "t", " ", "i", "t", " ", "r", "i",
                         "g", "h", "t", "!">>
                 ELSE IF enhanced.match_quality = <<"p", "a", "r", "t", "i", "a", "l">>
                 THEN <<"C", "l", "o", "s", "e", "!", " ", "Y", "o", "u", " ", "h", "a",
                         "d", " ", "t", "h", "e", " ", "r", "i", "g", "h", "t", " ", "i",
                         "d", "e", "a", ".", " ", "F", "u", "l", "l", " ", "a", "n", "s",
                         "w", "e", "r", ":", " ">> \o correct_answer
                 ELSE <<"K", "e", "e", "p", " ", "t", "r", "y", "i", "n", "g", "!", " ",
                         "T", "h", "e", " ", "c", "o", "r", "r", "e", "c", "t", " ", "a",
                         "n", "s", "w", "e", "r", " ", "i", "s", ":", " ">> \o correct_answer,
             score |-> IF enhanced.is_correct THEN 100
                       ELSE IF enhanced.match_quality = <<"p", "a", "r", "t", "i", "a",
                               "l">> THEN 50 ELSE 0,
             match_quality |-> enhanced.match_quality]

\* As Answered, but a skipped question leaves the streak as it was
AnsweredKeepsStreak(session, flashcard, typed, evaluated, is_correct) ==
    LET streak == IF evaluated /\ is_correct THEN session.streak + 1
                  ELSE IF evaluated THEN 0
                  ELSE session.streak
    IN [correct |-> session.correct + (IF evaluated /\ is_correct THEN 1 ELSE 0),
        total |-> session.total + 1,
        wrong_answers |->
            IF evaluated /\ ~is_correct
            THEN Append(session.wrong_answers,
                        [question |-> Item(flashcard, K_question),
                         user_answer |-> JStr(typed),
                         correct_answer |-> Item(flashcard, K_answer)])
            ELSE session.wrong_answers,
        streak |-> streak,
        best_streak |-> IF streak > session.best_streak THEN streak
                        ELSE session.best_streak]

\* What one question does to current_session: ask_question keeps the streak
\* and the wrong answers (a skipped question, evaluated = FALSE, resets the
\* streak and records nothing), run_quiz counts (lines 276-280)
Answered(session, flashcard, typed, evaluated, is_correct) ==
    LET streak == IF evaluated /\ is_correct THEN session.streak + 1 ELSE 0
    IN [correct |-> session.correct + (IF evaluated /\ is_correct THEN 1 ELSE 0),
        total |-> session.total + 1,
        wrong_answers |->
            IF evaluated /\ ~is_correct
            THEN Append(session.wrong_answers,
                        [question |-> Item(flashcard, K_question),
                         user_answer |-> JStr(typed),
                         correct_answer |-> Item(flashcard, K_answer)])
            ELSE session.wrong_answers,
        streak |-> streak,
        best_streak |-> IF streak > session.best_streak THEN streak
                        ELSE session.best_streak]

\* Before any quiz: up to QuizMaxCards cards in data/flashcards.json (the
\* second without a mnemonic), two questions or none in data/mcqs.json, no
\* data/progress.json
QuizInit ==
    /\ pc = "idle"
    /\ LET cards == <<Flashcard(<<"W", "h", "a", "t", " ", "i", "s", " ", "a", " ", "c",
            "e", "l", "l", "?">>, <<"T", "h", "e", " ", "u", "n", "i", "t", " ", "o", "f",
            " ", "l", "i", "f", "e">>, <<"m">>),
                      JObj(<<Member(K_question, JStr(<<"F", "o", "r", "m", "u", "l", "a",
                              " ", "o", "f", " ", "o", "x", "y", "g", "e", "n", "?">>)),
                             Member(K_answer, JStr(<<"O", "2">>))>>),
                      Flashcard(<<"W", "h", "a", "t", " ", "i", "s", " ", "o", "s", "m",
                              "o", "s", "i", "s", "?">>, <<"m", "o", "v", "e", "s", " ",
                              "w", "a", "t", "e", "r", " ", "s", "l", "o", "w", "l",
                              "y">>, <<"m">>)>>
       IN flashcards_json \in {Absent} \cup {JArr(SubSeq(cards, 1, n)) : n \in 1..QuizMaxCards}
    /\ mcqs_json \in
        {Absent,
         JObj(<<Member(<<"m", "c", "q", "s">>, JArr(<<>>))>>),
         JObj(<<Member(<<"m", "c", "q", "s">>, JArr(<<
            JObj(<<Member(K_question, JStr(<<"W", "h", "a", "t", " ", "b", "e", "s", "t",
                    " ", "d", "e", "s", "c", "r", "i", "b", "e", "s", ":", " ", "*", "*",
                    "C", "e", "l", "l", "*", "*", "?">>)),
                   Member(K_options, JArr(<<JStr(<<"u", "n", "i", "t", " ", "o", "f", " ",
                           "l", "i", "f", "e">>), JStr(<<"a", " ", "s", "m", "a", "l", "l",
                           " ", "r", "o", "o", "m">>)>>)),
                   Member(K_answer_index, JNum(0)),
                   Member(K_explanation, JStr(<<"'", "C", "e", "l", "l", "'", " ", "m", "e",
                           "a", "n", "s", ":", " ", "u", "n", "i", "t", " ", "o", "f", " ",
                           "l", "i", "f", "e">>))>>),
            JObj(<<Member(K_question, JStr(<<"W", "h", "i", "c", "h", " ", "o", "n", "e",
                    " ", "m", "o", "v", "e", "s", " ", "w", "a", "t", "e", "r", "?">>)),
                   Member(K_options, JArr(<<JStr(<<"A", "T", "P">>), JStr(<<"D", "N",
                           "A">>), JStr(<<"O", "s", "m", "o", "s", "i", "s">>)>>)),
                   Member(K_answer_index, JNum(2)),
                   Member(K_explanation, JStr(<<>>))>>)>>))>>)}
    /\ QuizIdle
    /\ proc = NoRun
    /\ frame = <<>>
    /\ chunks = <<>>
    /\ ci = 0
    /\ all_flashcards = <<>>
    /\ notes_text = <<>>
    /\ concepts = <<>>
    /\ mcqs = <<>>
    /\ use_gemini = TRUE
    /\ num_questions = 10
    /\ discovered_files = <<>>
    /\ user_input = <<>>
    /\ file = 0
    /\ files_processed = <<>>
    /\ all_success = TRUE
    /\ i = 0
    /\ result = NoResult
    /\ ScanIdle
    /\ FlashIdle
    /\ McqIdle

\* start_quiz up to the first question: QuizSession.__init__ with load_json
\* (an empty dict for a missing file) and load_progress (the initial counters
\* only for an empty progress), then run_quiz's choice of the cards, all of
\* them or a random sample of num_questions
StartQuiz ==
    /\ pc = "idle"
    /\ LET stored == IF progress_json = Absent THEN JObj(<<>>) ELSE progress_json
           sessions == IF Has(stored, <<"s", "e", "s", "s", "i", "o", "n",
                   "s">>) THEN Len(Item(stored, <<"s", "e", "s", "s", "i", "o", "n",
                   "s">>).v) ELSE 0
           quizzes == IF Has(stored, <<"t", "o", "t", "a", "l", "_", "s", "e", "s", "s",
                   "i", "o", "n", "s">>)
                      THEN Item(stored, <<"t", "o", "t", "a", "l", "_", "s", "e", "s", "s",
                              "i", "o", "n", "s">>).v[1] ELSE 0
       IN quizzes + sessions < QuizMaxSessions
    /\ LET loaded == IF flashcards_json = Absent THEN JObj(<<>>) ELSE flashcards_json
           progress == IF progress_json = Absent \/ ~Truthy(progress_json)
                       THEN JObj(<<Member(<<"t", "o", "t", "a", "l", "_", "s", "e", "s",
                               "s", "i", "o", "n", "s">>, JNum(0)),
                                   Member(<<"t", "o", "t", "a", "l", "_", "q", "u", "e",
                                           "s", "t", "i", "o", "n", "s">>, JNum(0)),
                                   Member(<<"c", "o", "r", "r", "e", "c", "t", "_", "a",
                                           "n", "s", "w", "e", "r", "s">>, JNum(0)),
                                   Member(<<"d", "i", "f", "f", "i", "c", "u", "l", "t",
                                           "_", "c", "o", "n", "c", "e", "p", "t",
                                           "s">>, JObj(<<>>)),
                                   Member(<<"m", "a", "s", "t", "e", "r", "e", "d", "_",
                                           "c", "o", "n", "c", "e", "p", "t",
                                           "s">>, JArr(<<>>))>>)
                       ELSE progress_json
       IN /\ quiz' = [flashcards |-> loaded, progress |-> progress,
                      current_session |-> [correct |-> 0, total |-> 0,
                                           wrong_answers |-> <<>>, streak |-> 0,
                                           best_streak |-> 0]]
          /\ IF ~Truthy(loaded)
             THEN /\ pc' = "idle"
                  /\ UNCHANGED <<i, num_questions, selected_cards>>
             ELSE /\ \E given \in BOOLEAN :
                        num_questions' = IF given THEN 1
                                         ELSE IF Len(loaded.v) < 10 THEN Len(loaded.v)
                                         ELSE 10
                  /\ selected_cards' \in IF Len(loaded.v) > num_questions'
                                         THEN Samples(loaded.v, num_questions')
                                         ELSE {loaded.v}
                  /\ i' = 1
                  /\ pc' = "ask_question"
    /\ UNCHANGED <<result, response, proc, progress_json, user_answer, evaluation,
                   items, correct, total, responses>>
    /\ UNCHANGED <<scanVars, mcqVars, content, flashcards, valid_flashcards,
                   unique_flashcards, frame, chunks, ci, all_flashcards, notes_text,
                   concepts, mcqs, use_gemini, flashcards_json, mcqs_json,
                   discovered_files, user_input, file, files_processed, all_success>>

\* One turn of run_quiz's loop: ask_question reads the answer; an empty one
\* skips the question, any other is evaluated, by the Gemini CLI when it
\* has three characters or more (of that run only what call_gemini_cli
\* returns is kept)
AskQuestion ==
    /\ pc = "ask_question"
    /\ i <= Len(selected_cards)
    /\ \E typed \in {<<>>, <<" ">>, <<"o", "2">>, <<"u", "n", "i", "t", " ", "o", "f", " ",
            "l", "i", "f", "e">>, <<"m", "o", "v", "e", "s", " ", "w", "a", "t", "e", "r",
            " ">>} :
        LET flashcard == selected_cards[i]
            answer == Strip(typed)
            correct_answer == Item(flashcard, K_answer).v
        IN /\ user_answer' = answer
           /\ IF answer = <<>>
              THEN /\ quiz' = [quiz EXCEPT !.current_session =
                                    Answered(quiz.current_session, flashcard, answer,
                                             FALSE, FALSE)]
                   /\ response' = <<>>
                   /\ UNCHANGED evaluation
              ELSE /\ IF Len(Strip(answer)) < 3
                      THEN response' = <<>>
                      ELSE \E run \in Subprocess({<<"C", "O", "R", "R", "E", "C", "T", " ",
                              "|", " ", "W", "e", "l", "l", " ", "d", "o", "n", "e", "!">>,
                                                  <<"I", "N", "C", "O", "R", "R", "E", "C",
                                                          "T", " ", "|", " ", "N", "o", "t",
                                                          " ", "q", "u", "i", "t", "e", ".">>,
                                                  <<"P", "A", "R", "T", "I", "A", "L", " ",
                                                          "|", " ", "C", "l", "o", "s", "e">>,
                                                  <<"I", " ", "c", "a", "n", "n", "o", "t",
                                                          " ", "t", "e", "l", "l">>}) :
                                response' = CallGeminiCli(run)
                   /\ evaluation' = EvaluateAnswerWithGemini(answer, correct_answer, response')
                   /\ quiz' = [quiz EXCEPT !.current_session =
                                    Answered(quiz.current_session, flashcard, answer, TRUE,
                                             evaluation'.is_correct)]
    /\ i' = i + 1
    /\ UNCHANGED <<pc, result, proc, num_questions, progress_json, selected_cards,
                   items, correct, total, responses>>
    /\ UNCHANGED <<scanVars, mcqVars, content, flashcards, valid_flashcards,
                   unique_flashcards, frame, chunks, ci, all_flashcards, notes_text,
                   concepts, mcqs, use_gemini, flashcards_json, mcqs_json,
                   discovered_files, user_input, file, files_processed, all_success>>

\* The end of run_quiz: update_progress adds the session to self.progress and
\* save_progress writes it to data/progress.json; a counter that the loaded
\* progress lacks raises KeyError, which start_quiz catches (lines 370-372),
\* and nothing is written. The session ends with the call
UpdateProgress ==
    /\ pc = "ask_question"
    /\ i > Len(selected_cards)
    /\ LET progress == quiz.progress
           session == quiz.current_session
           Plus(p, key, n) == JObj(ObjSet(p.v, key, JNum(Item(p, key).v[1] + n)))
           RECURSIVE Track(_, _)
           Track(difficult, wrong) ==
                IF wrong = <<>> THEN difficult
                ELSE LET question == Head(wrong).question.v
                         seen == GetOr(difficult, question, JNum(0))
                     IN Track(JObj(ObjSet(difficult.v, question, JNum(seen.v[1] + 1))),
                              Tail(wrong))
           raises == \/ \E key \in {<<"t", "o", "t", "a", "l", "_", "s", "e", "s", "s", "i",
                         "o", "n", "s">>, <<"t", "o", "t", "a", "l", "_", "q", "u", "e",
                         "s", "t", "i", "o", "n", "s">>, <<"c", "o", "r", "r", "e", "c",
                         "t", "_", "a", "n", "s", "w", "e", "r", "s">>} :
                            ~Has(progress, key)
                     \/ session.wrong_answers # <<>> /\ ~Has(progress, <<"d", "i", "f", "f",
                                                         "i", "c", "u", "l", "t", "_", "c",
                                                         "o", "n", "c", "e", "p", "t", "s">>)
           counted == Plus(Plus(Plus(progress, <<"t", "o", "t", "a", "l", "_", "s", "e",
                   "s", "s", "i", "o", "n", "s">>, 1),
                                <<"t", "o", "t", "a", "l", "_", "q", "u", "e", "s", "t",
                                        "i", "o", "n", "s">>, session.total),
                           <<"c", "o", "r", "r", "e", "c", "t", "_", "a", "n", "s", "w",
                                   "e", "r", "s">>, session.correct)
           updated == IF session.wrong_answers = <<>> THEN counted
                      ELSE JObj(ObjSet(counted.v, <<"d", "i", "f", "f", "i", "c", "u", "l",
                              "t", "_", "c", "o", "n", "c", "e", "p", "t", "s">>,
                                       Track(Item(counted, <<"d", "i", "f", "f", "i", "c",
                                               "u", "l", "t", "_", "c", "o", "n", "c", "e",
                                               "p", "t", "s">>),
                                             session.wrong_answers)))
       IN progress_json' = IF raises THEN progress_json ELSE updated
    /\ pc' = "idle"
    /\ result' = Returned(JNull)
    /\ quiz' = [flashcards |-> Absent, progress |-> Absent,
                current_session |-> [correct |-> 0, total |-> 0, wrong_answers |-> <<>>,
                                     streak |-> 0, best_streak |-> 0]]
    /\ selected_cards' = <<>>
    /\ user_answer' = <<>>
    /\ evaluation' = [is_correct |-> FALSE, feedback |-> <<>>, score |-> 0,
                      match_quality |-> <<>>]
    /\ response' = <<>>
    /\ i' = 0
    /\ UNCHANGED <<proc, num_questions, items, correct, total, responses>>
    /\ UNCHANGED <<scanVars, mcqVars, content, flashcards, valid_flashcards,
                   unique_flashcards, frame, chunks, ci, all_flashcards, notes_text,
                   concepts, mcqs, use_gemini, flashcards_json, mcqs_json,
                   discovered_files, user_input, file, files_processed, all_success>>

\* run_mcq_quiz up to the first question, called as handle_mcq_session calls
\* it (limit = 5): the questions of data/mcqs.json in a random order
RunMcqQuiz ==
    /\ pc = "idle"
    /\ LET stored == IF progress_json = Absent THEN JObj(<<>>) ELSE progress_json
           sessions == IF Has(stored, <<"s", "e", "s", "s", "i", "o", "n",
                   "s">>) THEN Len(Item(stored, <<"s", "e", "s", "s", "i", "o", "n",
                   "s">>).v) ELSE 0
           quizzes == IF Has(stored, <<"t", "o", "t", "a", "l", "_", "s", "e", "s", "s",
                   "i", "o", "n", "s">>)
                      THEN Item(stored, <<"t", "o", "t", "a", "l", "_", "s", "e", "s", "s",
                              "i", "o", "n", "s">>).v[1] ELSE 0
       IN quizzes + sessions < QuizMaxSessions
    /\ LET payload == mcqs_json
           found == IF payload = Absent THEN JArr(<<>>) ELSE GetOr(payload, <<"m", "c", "q",
                   "s">>, JArr(<<>>))
       IN IF ~Truthy(found)
          THEN UNCHANGED <<pc, i, items, correct, total, responses>>
          ELSE \E shuffled \in Samples(found.v, Len(found.v)) :
                /\ items' = SubSeq(shuffled, 1, IF Len(shuffled) < 5 THEN Len(shuffled) ELSE 5)
                /\ correct' = 0
                /\ total' = Len(items')
                /\ responses' = <<>>
                /\ i' = 1
                /\ pc' = "mcq_question"
    /\ UNCHANGED <<result, response, proc, num_questions, progress_json, quiz,
                   selected_cards, user_answer, evaluation>>
    /\ UNCHANGED <<scanVars, mcqVars, content, flashcards, valid_flashcards,
                   unique_flashcards, frame, chunks, ci, all_flashcards, notes_text,
                   concepts, mcqs, use_gemini, flashcards_json, mcqs_json,
                   discovered_files, user_input, file, files_processed, all_success>>

\* One turn of run_mcq_quiz's loop: the prompt accepts the letters of the
\* options only
McqQuestion ==
    /\ pc = "mcq_question"
    /\ i <= Len(items)
    /\ LET q == items[i]
           question_text == CleanMd(GetOr(q, K_question, JStr(<<>>)).v)
           options == GetOr(q, K_options, JArr(<<>>)).v
           answer_index == IntOf(GetOr(q, K_answer_index, JNum(0)))
       IN \E chosen_index \in 0..(Len(options) - 1) :
            LET is_correct == chosen_index = answer_index
            IN /\ correct' = correct + (IF is_correct THEN 1 ELSE 0)
               /\ responses' = Append(responses,
                    JObj(<<Member(K_question, JStr(question_text)),
                           Member(<<"c", "h", "o", "s", "e", "n">>, JNum(chosen_index)),
                           Member(<<"c", "o", "r", "r", "e", "c", "t">>, JNum(answer_index)),
                           Member(<<"i", "s", "_", "c", "o", "r", "r", "e", "c",
                                   "t">>, JBool(is_correct))>>))
    /\ i' = i + 1
    /\ UNCHANGED <<pc, result, response, proc, num_questions, progress_json, quiz,
                   selected_cards, user_answer, evaluation, items, total>>
    /\ UNCHANGED <<scanVars, mcqVars, content, flashcards, valid_flashcards,
                   unique_flashcards, frame, chunks, ci, all_flashcards, notes_text,
                   concepts, mcqs, use_gemini, flashcards_json, mcqs_json,
                   discovered_files, user_input, file, files_processed, all_success>>

\* The end of run_mcq_quiz: _save_progress appends the session to "sessions"
\* of what data/progress.json holds and writes the file. score_pct is a
\* float, kept in tenths (round(x, 1) is the nearest tenth: no x of up to
\* five questions lies halfway); the clock's time is a text that nothing
\* reads. The locals end with the call
SaveProgress ==
    /\ pc = "mcq_question"
    /\ i > Len(items)
    /\ \E timestamp \in {<<"2", "0", "2", "6", "-", "0", "1", "-", "0", "1", "T", "0", "9",
            ":", "0", "0", ":", "0", "0", "Z">>} :
        LET score_pct == [t |-> "float",
                          v |-> <<IF total = 0 THEN 0
                                  ELSE (2000 * correct + total) \div (2 * total)>>]
            session == JObj(<<Member(<<"m", "o", "d", "e">>, JStr(<<"m", "c", "q">>)),
                              Member(<<"t", "i", "m", "e", "s", "t", "a", "m",
                                      "p">>, JStr(timestamp)),
                              Member(<<"t", "o", "t", "a", "l">>, JNum(total)),
                              Member(<<"c", "o", "r", "r", "e", "c", "t">>, JNum(correct)),
                              Member(<<"s", "c", "o", "r", "e", "_", "p", "c",
                                      "t">>, score_pct),
                              Member(<<"r", "e", "s", "p", "o", "n", "s", "e",
                                      "s">>, JArr(responses))>>)
            prog == IF progress_json = Absent
                    THEN JObj(<<Member(<<"s", "e", "s", "s", "i", "o", "n",
                            "s">>, JArr(<<>>))>>)
                    ELSE progress_json
            sessions == GetOr(prog, <<"s", "e", "s", "s", "i", "o", "n", "s">>, JArr(<<>>))
        IN progress_json' = JObj(ObjSet(prog.v, <<"s", "e", "s", "s", "i", "o", "n", "s">>,
                                        JArr(Append(sessions.v, session))))
    /\ pc' = "idle"
    /\ result' = Returned(JNull)
    /\ items' = <<>>
    /\ correct' = 0
    /\ total' = 0
    /\ responses' = <<>>
    /\ i' = 0
    /\ UNCHANGED <<response, proc, num_questions, quiz, selected_cards, user_answer,
                   evaluation>>
    /\ UNCHANGED <<scanVars, mcqVars, content, flashcards, valid_flashcards,
                   unique_flashcards, frame, chunks, ci, all_flashcards, notes_text,
                   concepts, mcqs, use_gemini, flashcards_json, mcqs_json,
                   discovered_files, user_input, file, files_processed, all_success>>

QuizNext ==
    \/ StartQuiz
    \/ AskQuestion
    \/ UpdateProgress
    \/ RunMcqQuiz
    \/ McqQuestion
    \/ SaveProgress

SpecQuiz == QuizInit /\ [][QuizNext]_vars

\* The status of the evaluator's response, in the format STATUS | Feedback of
\* the prompt: what stands before the first "|"
ResponseStatus == Strip(Slice(response, 1, SkipUntil(response, 1, {"|"}) - 1))

\* C26: when the evaluator has answered, evaluate_answer_with_gemini marks the
\* answer correct only for the status CORRECT, and then with score 100; the
\* status INCORRECT gives is_correct false and score 0, the status PARTIAL
\* is_correct false and score 50
C26_CorrectOnlyForStatusCorrect ==
    pc = "ask_question" /\ response # <<>> =>
        /\ evaluation.is_correct =>
                ResponseStatus = <<"C", "O", "R", "R", "E", "C", "T">> /\ evaluation.score = 100
        /\ ResponseStatus = <<"I", "N", "C", "O", "R", "R", "E", "C", "T">> =>
                ~evaluation.is_correct /\ evaluation.score = 0
        /\ ResponseStatus = <<"P", "A", "R", "T", "I", "A", "L">> =>
                ~evaluation.is_correct /\ evaluation.score = 50

\* The counter key of the stored progress, 0 while the file or the key is
\* missing, and the stored list of MCQ sessions
StoredCounter(stored, key) ==
    IF stored # Absent /\ Has(stored, key) THEN Item(stored, key).v[1] ELSE 0
StoredSessions(stored) ==
    IF stored # Absent /\ Has(stored, <<"s", "e", "s", "s", "i", "o", "n",
                           "s">>) THEN Item(stored, <<"s", "e", "s", "s", "i", "o", "n",
                           "s">>).v ELSE <<>>
StoredCounters(stored) ==
    IF stored = Absent THEN <<>>
    ELSE SelectSeq(stored.v, LAMBDA member : member.k # <<"s", "e", "s", "s", "i", "o", "n",
            "s">>)

\* C29: whatever quizzes came before, the end of a flashcard quiz raises the
\* stored total_sessions by 1 and the stored total_questions by the number
\* of questions asked, and the end of an MCQ quiz appends one entry to
\* "sessions" and leaves the earlier entries and the counters as they were
C29_EveryCompletedQuizIsStored ==
    [][/\ pc = "ask_question" /\ i > Len(selected_cards) =>
            /\ StoredCounter(progress_json', <<"t", "o", "t", "a", "l", "_", "s", "e", "s",
                    "s", "i", "o", "n", "s">>)
                    = StoredCounter(progress_json, <<"t", "o", "t", "a", "l", "_", "s", "e",
                            "s", "s", "i", "o", "n", "s">>) + 1
            /\ StoredCounter(progress_json', <<"t", "o", "t", "a", "l", "_", "q", "u", "e",
                    "s", "t", "i", "o", "n", "s">>)
                    = StoredCounter(progress_json, <<"t", "o", "t", "a", "l", "_", "q", "u",
                            "e", "s", "t", "i", "o", "n", "s">>)
                        + quiz.current_session.total
       /\ pc = "mcq_question" /\ i > Len(items) =>
            /\ Len(StoredSessions(progress_json')) = Len(StoredSessions(progress_json)) + 1
            /\ SubSeq(StoredSessions(progress_json'), 1, Len(StoredSessions(progress_json)))
                    = StoredSessions(progress_json)
            /\ StoredCounters(progress_json') = StoredCounters(progress_json)]_vars

\* C30: while run_quiz asks its questions, 0 <= correct <= total <= the
\* number of selected cards and streak <= best_streak <= correct; every
\* question counts, a question not answered correctly (wrong or skipped)
\* resets the streak to 0, and wrong_answers grows by one exactly when the
\* question was neither answered correctly nor skipped, so that its length
\* is total - correct - the number of skipped questions
C30_QuizCounters ==
    /\ [](pc = "ask_question" =>
            LET session == quiz.current_session
            IN /\ 0 <= session.correct
               /\ session.correct <= session.total
               /\ session.total <= Len(selected_cards)
               /\ session.total = i - 1
               /\ session.streak <= session.best_streak
               /\ session.best_streak <= session.correct
               /\ Len(session.wrong_answers) <= session.total - session.correct)
    /\ [][pc = "ask_question" /\ i <= Len(selected_cards) =>
            LET before == quiz.current_session
                after == quiz'.current_session
                skipped == IF user_answer' = <<>> THEN 1 ELSE 0
            IN /\ after.total = before.total + 1
               /\ after.correct \in {before.correct, before.correct + 1}
               /\ after.correct = before.correct => after.streak = 0
               /\ after.correct = before.correct + 1 => after.streak = before.streak + 1
               /\ Len(after.wrong_answers) - Len(before.wrong_answers)
                    = (after.total - before.total) - (after.correct - before.correct)
                        - skipped]_vars

\* C30 witness: two questions asked, the first answered correctly and the
\* second skipped: the streak is back at 0, the best streak stays 1 and no
\* wrong answer is recorded
C30_Witness ==
    /\ pc = "ask_question"
    /\ i = 3
    /\ user_answer = <<>>
    /\ quiz.current_session = [correct |-> 1, total |-> 2, wrong_answers |-> <<>>,
                               streak |-> 0, best_streak |-> 1]

============================================================================
